---- MODULE Spec2Model ----
(***************************************************************************)
(* Conversation state machine of the second-brain Telegram bot.            *)
(*                                                                         *)
(* src/main.py: handle_message, parse_confirmation and the command tables. *)
(* src/classifier.py: the store adapter that main.py imports (            *)
(* extract_identifier, fuzzy_match_name, find_similar_person,              *)
(* append_to_person, save_entry, save_or_update_person, get_all_people,    *)
(* fix_entry).                                                             *)
(*                                                                         *)
(* A text is a sequence of one-character strings; a character outside      *)
(* ASCII is written "uXXXX" (its code point).  Timestamps are not          *)
(* modelled: every timestamp is the one value NOW.  The Inbox Log sheet is *)
(* written but never read by a handler and is left out.  A reply is kept   *)
(* as its kind and the values it lists, not as its text.                   *)
(***************************************************************************)
EXTENDS Integers, Sequences, FiniteSets, TLC

\* ------------------------------------------------------------------ text

\* str.lower() on the characters that occur in the model
UpperToLower ==
  [c \in {"A","B","C","D","E","F","G","H","I","J","K","L","M","N","O","P","Q",
          "R","S","T","U","V","W","X","Y","Z","u00d6","u00d8"} |->
     CASE c = "A" -> "a" [] c = "B" -> "b" [] c = "C" -> "c" [] c = "D" -> "d"
       [] c = "E" -> "e" [] c = "F" -> "f" [] c = "G" -> "g" [] c = "H" -> "h"
       [] c = "I" -> "i" [] c = "J" -> "j" [] c = "K" -> "k" [] c = "L" -> "l"
       [] c = "M" -> "m" [] c = "N" -> "n" [] c = "O" -> "o" [] c = "P" -> "p"
       [] c = "Q" -> "q" [] c = "R" -> "r" [] c = "S" -> "s" [] c = "T" -> "t"
       [] c = "U" -> "u" [] c = "V" -> "v" [] c = "W" -> "w" [] c = "X" -> "x"
       [] c = "Y" -> "y" [] c = "Z" -> "z"
       [] c = "u00d6" -> "u00f6" [] c = "u00d8" -> "u00f8"]

LowerChar(c) == IF c \in DOMAIN UpperToLower THEN UpperToLower[c] ELSE c

Lower(s) == [i \in 1..Len(s) |-> LowerChar(s[i])]

Whitespace == {" ", "\t", "\n"}

Digits == {"0","1","2","3","4","5","6","7","8","9"}

DigitValue(c) ==
  CASE c = "0" -> 0 [] c = "1" -> 1 [] c = "2" -> 2 [] c = "3" -> 3
    [] c = "4" -> 4 [] c = "5" -> 5 [] c = "6" -> 6 [] c = "7" -> 7
    [] c = "8" -> 8 [] c = "9" -> 9

SetMin(S) == CHOOSE i \in S : \A j \in S : i <= j
SetMax(S) == CHOOSE i \in S : \A j \in S : j <= i

\* the part of s from the first to the last position of keep
Span(s, keep) == IF keep = {} THEN <<>> ELSE SubSeq(s, SetMin(keep), SetMax(keep))

\* str.strip(): whitespace removed at both ends
Strip(s) == Span(s, {i \in 1..Len(s) : s[i] \notin Whitespace})

\* the part of s up to the last position of keep
UpTo(s, keep) == IF keep = {} THEN <<>> ELSE SubSeq(s, 1, SetMax(keep))

\* str.rstrip(chars)
RStrip(s, chars) == UpTo(s, {i \in 1..Len(s) : s[i] \notin chars})

\* `sub in s`
Contains(sub, s) ==
  \E i \in 0..(Len(s) - Len(sub)) : SubSeq(s, i + 1, i + Len(sub)) = sub

\* s.find(sub), 0-based, for a sub that occurs in s
Find(sub, s) ==
  CHOOSE i \in 0..(Len(s) - Len(sub)) :
    /\ SubSeq(s, i + 1, i + Len(sub)) = sub
    /\ \A j \in 0..(i - 1) : SubSeq(s, j + 1, j + Len(sub)) # sub

StartsWith(s, p) == Len(p) <= Len(s) /\ SubSeq(s, 1, Len(p)) = p

\* s[n:]
Drop(s, n) == SubSeq(s, n + 1, Len(s))

\* s[:n]
Take(s, n) == SubSeq(s, 1, IF n < Len(s) THEN n ELSE Len(s))

\* str.replace(old, new) for a non-empty old: left to right, non-overlapping
RECURSIVE Replace(_, _, _)
Replace(s, old, new) ==
  IF Len(s) < Len(old) THEN s
  ELSE IF SubSeq(s, 1, Len(old)) = old
       THEN new \o Replace(Drop(s, Len(old)), old, new)
       ELSE <<s[1]>> \o Replace(Drop(s, 1), old, new)

\* str.split(): the maximal runs of non-whitespace
RECURSIVE Split(_)
SplitAt(t, ws) ==
  IF ws = {} THEN <<t>>
  ELSE <<SubSeq(t, 1, SetMin(ws) - 1)>> \o Split(Drop(t, SetMin(ws) - 1))
SplitStripped(t) ==
  IF t = <<>> THEN <<>>
  ELSE SplitAt(t, {i \in 1..Len(t) : t[i] \in Whitespace})
Split(s) == SplitStripped(Strip(s))

\* " ".join(words)
RECURSIVE Join(_)
Join(words) ==
  IF words = <<>> THEN <<>>
  ELSE IF Len(words) = 1 THEN words[1]
  ELSE words[1] \o <<" ">> \o Join(Tail(words))

\* str.isdigit()
IsDigit(s) == s # <<>> /\ \A i \in 1..Len(s) : s[i] \in Digits

\* int(s) for a text of digits
RECURSIVE ToInt(_)
ToInt(s) ==
  IF s = <<>> THEN 0
  ELSE 10 * ToInt(SubSeq(s, 1, Len(s) - 1)) + DigitValue(s[Len(s)])

\* `x in list`
InList(x, list) == \E i \in 1..Len(list) : list[i] = x

\* ------------------------------------------------ confirmation parsing

AFFIRMATIVE ==
  << <<"y">>,
     <<"y", "e", "s">>,
     <<"y", "e", "a">>,
     <<"y", "e", "a", "h">>,
     <<"y", "e", "p">>,
     <<"y", "u", "p">>,
     <<"y", "a">>,
     <<"y", "e">>,
     <<"y", "s">>,
     <<"m", "h", "m">>,
     <<"m", "m">>,
     <<"m", "m", "h", "m">>,
     <<"u", "h", " ", "h", "u", "h">>,
     <<"u", "h", "u", "h">>,
     <<"s", "u", "r", "e">>,
     <<"o", "k">>,
     <<"o", "k", "a", "y">>,
     <<"k">>,
     <<"k", "k">>,
     <<"c", "o", "r", "r", "e", "c", "t">>,
     <<"r", "i", "g", "h", "t">>,
     <<"e", "x", "a", "c", "t", "l", "y">>,
     <<"i", "n", "d", "e", "e", "d">>,
     <<"a", "b", "s", "o", "l", "u", "t", "e", "l", "y">>,
     <<"d", "e", "f", "i", "n", "i", "t", "e", "l", "y">>,
     <<"c", "e", "r", "t", "a", "i", "n", "l", "y">>,
     <<"t", "o", "t", "a", "l", "l", "y">>,
     <<"f", "o", "r", " ", "s", "u", "r", "e">>,
     <<"o", "f", " ", "c", "o", "u", "r", "s", "e">>,
     <<"t", "h", "a", "t", "'", "s", " ", "h", "i", "m">>,
     <<"t", "h", "a", "t", "s", " ", "h", "i", "m">>,
     <<"t", "h", "a", "t", "'", "s", " ", "h", "e", "r">>,
     <<"t", "h", "a", "t", "s", " ", "h", "e", "r">>,
     <<"t", "h", "a", "t", "'", "s", " ", "t", "h", "e", "m">>,
     <<"t", "h", "a", "t", "s", " ", "t", "h", "e", "m">>,
     <<"t", "h", "a", "t", "'", "s", " ", "t", "h", "e", " ", "o", "n", "e">>,
     <<"t", "h", "a", "t", "s", " ", "t", "h", "e", " ", "o", "n", "e">>,
     <<"t", "h", "e", " ", "o", "n", "e">>,
     <<"t", "h", "a", "t", " ", "o", "n", "e">>,
     <<"t", "h", "i", "s", " ", "o", "n", "e">>,
     <<"h", "i", "m">>,
     <<"h", "e", "r">>,
     <<"t", "h", "e", "m">>,
     <<"s", "a", "m", "e">>,
     <<"s", "a", "m", "e", " ", "o", "n", "e">>,
     <<"s", "a", "m", "e", " ", "p", "e", "r", "s", "o", "n">>,
     <<"s", "a", "m", "e", " ", "g", "u", "y">>,
     <<"s", "a", "m", "e", " ", "d", "u", "d", "e">>,
     <<"b", "i", "n", "g", "o">>,
     <<"y", "e", "s", "s", "i", "r">>,
     <<"y", "e", "s", " ", "s", "i", "r">>,
     <<"y", "e", "s", "s", "s">>,
     <<"y", "a", "s", "s">>,
     <<"y", "a", "s", "s", "s">>,
     <<"y", "a", "a", "a", "s">>,
     <<"b", "e", "t">>,
     <<"w", "o", "r", "d">>,
     <<"f", "a", "c", "t", "s">>,
     <<"t", "r", "u", "e">>,
     <<"t", "r", "u">>,
     <<"a", "i", "g", "h", "t">>,
     <<"i", "g", "h", "t">>,
     <<"f", "o", "s", "h", "o">>,
     <<"f", "o", " ", "s", "h", "o">>,
     <<"s", "i">>,
     <<"o", "u", "i">>,
     <<"j", "a">>,
     <<"h", "a", "i">>,
     <<"d", "a">>,
     <<"uf8ff", "u00fc", "u00eb", "u00e7">>,
     <<"u201a", "u00fa", "u00d6">>,
     <<"uf8ff", "u00fc", "u00eb", "u00e5">>,
     <<"uf8ff", "u00fc", "u00f4", "u00e5">>,
     <<"uf8ff", "u00fc", "u00ed", "u00d8">>,
     <<"u201a", "u00fa", "u00ee">>,
     <<"u201a", "u00f2", "u00eb">>,
     <<"y", "s", "e">>,
     <<"y", "e", "s", "s">>,
     <<"y", "e", "a", " ", "h">>,
     <<"y", "e", "a", "p">>,
     <<"y", "e", "p", "!">>,
     <<"y", "e", "s", "!">>,
     <<"y", "a", "!">>,
     <<"y", "e", "a", "h", "!">> >>

NEGATIVE ==
  << <<"n">>,
     <<"n", "o">>,
     <<"n", "a", "h">>,
     <<"n", "o", "p", "e">>,
     <<"n", "o", "p">>,
     <<"n", "a">>,
     <<"n", "a", "y">>,
     <<"n", "o", "t", " ", "r", "e", "a", "l", "l", "y">>,
     <<"n", "o", "t", " ", "h", "i", "m">>,
     <<"n", "o", "t", " ", "h", "e", "r">>,
     <<"n", "o", "t", " ", "t", "h", "e", "m">>,
     <<"n", "o", "t", " ", "t", "h", "a", "t", " ", "o", "n", "e">>,
     <<"w", "r", "o", "n", "g">>,
     <<"w", "r", "o", "n", "g", " ", "o", "n", "e">>,
     <<"w", "r", "o", "n", "g", " ", "p", "e", "r", "s", "o", "n">>,
     <<"w", "r", "o", "n", "g", " ", "g", "u", "y">>,
     <<"d", "i", "f", "f", "e", "r", "e", "n", "t">>,
     <<"d", "i", "f", "f", "e", "r", "e", "n", "t", " ", "o", "n", "e">>,
     <<"d", "i", "f", "f", "e", "r", "e", "n", "t", " ", "p", "e", "r", "s", "o", "n">>,
     <<"d", "i", "f", "f", "e", "r", "e", "n", "t", " ", "g", "u", "y">>,
     <<"a", "n", "o", "t", "h", "e", "r">>,
     <<"a", "n", "o", "t", "h", "e", "r", " ", "o", "n", "e">>,
     <<"a", "n", "o", "t", "h", "e", "r", " ", "p", "e", "r", "s", "o", "n">>,
     <<"a", "n", "o", "t", "h", "e", "r", " ", "g", "u", "y">>,
     <<"n", "e", "w">>,
     <<"n", "e", "w", " ", "o", "n", "e">>,
     <<"n", "e", "w", " ", "p", "e", "r", "s", "o", "n">>,
     <<"c", "r", "e", "a", "t", "e", " ", "n", "e", "w">>,
     <<"m", "a", "k", "e", " ", "n", "e", "w">>,
     <<"a", "d", "d", " ", "n", "e", "w">>,
     <<"n", "u", "h", " ", "u", "h">>,
     <<"n", "u", "h", "u", "h">>,
     <<"n", "u", " ", "u", "h">>,
     <<"n", "e", "g", "a", "t", "i", "v", "e">>,
     <<"n", "e", "g", "a", "t", "o", "r", "y">>,
     <<"c", "a", "p">>,
     <<"n", "a", "d", "a">>,
     <<"n", "o", " ", "w", "a", "y">>,
     <<"h", "e", "l", "l", " ", "n", "o">>,
     <<"h", "e", "c", "k", " ", "n", "o">>,
     <<"n", "o", "t", "h", "i", "n", "g">>,
     <<"n", "e", "v", "e", "r", "m", "i", "n", "d">>,
     <<"n", "e", "v", "e", "r", " ", "m", "i", "n", "d">>,
     <<"f", "o", "r", "g", "e", "t", " ", "i", "t">>,
     <<"s", "k", "i", "p">>,
     <<"n", "o", "n", "e">>,
     <<"uf8ff", "u00fc", "u00eb", "u00e9">>,
     <<"u201a", "u00f9", "u00e5">>,
     <<"u201a", "u00fa", "u00f1">>,
     <<"uf8ff", "u00fc", "u00f6", "u00b4">>,
     <<"n", "i">>,
     <<"n", "p">>,
     <<"n", "o", "o">>,
     <<"n", "o", "o", "o">>,
     <<"n", "o", "p", "e", "!">> >>


\* Only phrases longer than this take part in the substring scan
MinPhraseLen == 2

\* ParseReply with the substring scan over the entries of every length
ParseReply_AnyLength(reply) ==
  IF InList(reply, AFFIRMATIVE) THEN "CONFIRM"
  ELSE IF InList(reply, NEGATIVE) THEN "DENY"
  ELSE IF \E i \in 1..Len(AFFIRMATIVE) : Contains(AFFIRMATIVE[i], reply)
       THEN "CONFIRM"
  ELSE IF \E i \in 1..Len(NEGATIVE) : Contains(NEGATIVE[i], reply)
       THEN "DENY"
  ELSE "OTHER"

\* main.py 97-113, on the lower-cased and stripped reply
ParseReply(reply) ==
  IF InList(reply, AFFIRMATIVE) THEN "CONFIRM"
  ELSE IF InList(reply, NEGATIVE) THEN "DENY"
  ELSE IF \E i \in 1..Len(AFFIRMATIVE) :
             Len(AFFIRMATIVE[i]) > MinPhraseLen /\ Contains(AFFIRMATIVE[i], reply)
       THEN "CONFIRM"
  ELSE IF \E i \in 1..Len(NEGATIVE) :
             Len(NEGATIVE[i]) > MinPhraseLen /\ Contains(NEGATIVE[i], reply)
       THEN "DENY"
  ELSE "OTHER"

parse_confirmation(reply) == ParseReply(Strip(Lower(reply)))

\* ------------------------------------------------- identifier extractor

T_from == <<"f","r","o","m"," ">>
T_your == <<"y","o","u","r"," ">>
T_in == <<"i","n"," ">>
T_from_the == <<"f","r","o","m"," ","t","h","e"," ">>

work_keywords ==
  << <<"w","o","r","k","s"," ","a","t">>, <<"a","t"," ">>, T_from, <<"@"," ">> >>

relation_keywords ==
  << <<"r","o","o","m","m","a","t","e">>, <<"f","r","i","e","n","d">>,
     <<"c","o","l","l","e","a","g","u","e">>, <<"b","r","o","t","h","e","r">>,
     <<"s","i","s","t","e","r">>, <<"w","i","f","e">>,
     <<"h","u","s","b","a","n","d">>, <<"p","a","r","t","n","e","r">>,
     <<"b","o","s","s">>, <<"m","a","n","a","g","e","r">>,
     <<"c","o","w","o","r","k","e","r">> >>

location_keywords ==
  << <<"l","i","v","e","s"," ","i","n">>, T_in, <<"b","a","s","e","d"," ","i","n">> >>

event_keywords ==
  << <<"m","e","t"," ","a","t">>, <<"f","r","o","m"," ","t","h","e">>,
     <<"a","t"," ","t","h","e">> >>

TrailingPunct == {".", ",", ";", ":"}

\* the words of context after the first occurrence of keyword
WordsAfter(context, keyword) ==
  Split(Drop(context, Find(keyword, Lower(context)) + Len(keyword)))

\* the phrase a cue class returns for the words after its keyword
CueText(words, prefix, nwords) ==
  IF nwords = 1 THEN prefix \o RStrip(words[1], TrailingPunct)
  ELSE prefix \o RStrip(Join(Take(words, nwords)), TrailingPunct)

\* One cue class of extract_identifier: the keywords are tried in order and a
\* keyword that occurs with no word after it falls to the next one.
\* Returns <<>> when no keyword of the class yields a result.
RECURSIVE CueScan(_, _, _, _)
CueTry(context, keywords, prefix, nwords, words) ==
  IF words # <<>> THEN CueText(words, prefix, nwords)
  ELSE CueScan(context, Tail(keywords), prefix, nwords)
CueScan(context, keywords, prefix, nwords) ==
  IF keywords = <<>> THEN <<>>
  ELSE IF Contains(Head(keywords), Lower(context))
  THEN CueTry(context, keywords, prefix, nwords, WordsAfter(context, Head(keywords)))
  ELSE CueScan(context, Tail(keywords), prefix, nwords)

RECURSIVE RelationScan(_, _)
RelationScan(context_lower, rels) ==
  IF rels = <<>> THEN <<>>
  ELSE IF Contains(Head(rels), context_lower) THEN T_your \o Head(rels)
  ELSE RelationScan(context_lower, Tail(rels))

\* FirstResult with the relationship tried before the workplace
FirstResult_RelationFirst(work, rel, loc, ev, fallback) ==
  IF rel # <<>> THEN rel
  ELSE IF work # <<>> THEN work
  ELSE IF loc # <<>> THEN loc
  ELSE IF ev # <<>> THEN ev
  ELSE fallback

\* the result of the first cue class that has one
FirstResult(work, rel, loc, ev, fallback) ==
  IF work # <<>> THEN work
  ELSE IF rel # <<>> THEN rel
  ELSE IF loc # <<>> THEN loc
  ELSE IF ev # <<>> THEN ev
  ELSE fallback

extract_identifier(context) ==
  IF context = <<>> THEN <<>>
  ELSE FirstResult(CueScan(context, work_keywords, T_from, 1),
                   RelationScan(Lower(context), relation_keywords),
                   CueScan(context, location_keywords, T_in, 1),
                   CueScan(context, event_keywords, T_from_the, 3),
                   RStrip(Join(Take(Split(context), 3)), TrailingPunct))

\* ------------------------------------------------------- fuzzy matcher

\* A score is a fraction <<numerator, denominator>>
ScoreGE(a, b) == a[1] * b[2] >= b[1] * a[2]
ScoreGT(a, b) == a[1] * b[2] > b[1] * a[2]

FirstOr(words, n) == IF words # <<>> THEN words[1] ELSE n
FirstWord(n) == FirstOr(Split(n), n)

Min2(a, b) == IF a < b THEN a ELSE b
Max2(a, b) == IF a > b THEN a ELSE b

\* NameScore with the first-name rule tried before the substring rule
NameScore_FirstNameFirst(n1, n2) ==
  IF n1 = n2 THEN <<1, 1>>
  ELSE IF FirstWord(n1) = FirstWord(n2) THEN <<17, 20>>
  ELSE IF Contains(n1, n2) \/ Contains(n2, n1) THEN <<9, 10>>
  ELSE IF Max2(Len(n1), Len(n2)) = 0 THEN <<0, 1>>
  ELSE <<Cardinality({i \in 1..Min2(Len(n1), Len(n2)) : n1[i] = n2[i]}),
         Max2(Len(n1), Len(n2))>>

\* NameScore with the overlap divided by the length of the first name
NameScore_ByFirstLength(n1, n2) ==
  IF n1 = n2 THEN <<1, 1>>
  ELSE IF Contains(n1, n2) \/ Contains(n2, n1) THEN <<9, 10>>
  ELSE IF FirstWord(n1) = FirstWord(n2) THEN <<17, 20>>
  ELSE IF Len(n1) = 0 THEN <<0, 1>>
  ELSE <<Cardinality({i \in 1..Min2(Len(n1), Len(n2)) : n1[i] = n2[i]}),
         Len(n1)>>

\* classifier.py 78-99, on the lower-cased and stripped names
NameScore(n1, n2) ==
  IF n1 = n2 THEN <<1, 1>>
  ELSE IF Contains(n1, n2) \/ Contains(n2, n1) THEN <<9, 10>>
  ELSE IF FirstWord(n1) = FirstWord(n2) THEN <<17, 20>>
  ELSE IF Max2(Len(n1), Len(n2)) = 0 THEN <<0, 1>>
  ELSE <<Cardinality({i \in 1..Min2(Len(n1), Len(n2)) : n1[i] = n2[i]}),
         Max2(Len(n1), Len(n2))>>

fuzzy_match_name(name1, name2) == NameScore(Strip(Lower(name1)), Strip(Lower(name2)))

\* Candidates need at least this score (0.8)
MatchThreshold == <<4, 5>>

\* ------------------------------------------------------------ constants

T_people == <<"p","e","o","p","l","e">>
T_ideas == <<"i","d","e","a","s">>
T_interviews == <<"i","n","t","e","r","v","i","e","w","s">>
T_things == <<"t","h","i","n","g","s">>
T_linkedin == <<"l","i","n","k","e","d","i","n">>

\* the five bucket tokens (main.py 395, 418)
BucketTokens == <<T_people, T_ideas, T_interviews, T_things, T_linkedin>>

BUCKET_SHORTCUTS ==
  << <<<<"p","p","l">>, T_people>>, <<<<"p">>, T_people>>, <<T_people, T_people>>,
     <<<<"i","d","e","a">>, T_ideas>>, <<T_ideas, T_ideas>>, <<<<"i">>, T_ideas>>,
     <<<<"i","n","t">>, T_interviews>>,
     <<<<"i","n","t","e","r","v","i","e","w">>, T_interviews>>,
     <<T_interviews, T_interviews>>,
     <<T_things, T_things>>, <<<<"t","h","i","n","g">>, T_things>>,
     <<<<"t">>, T_things>>,
     <<<<"l","i">>, T_linkedin>>, <<<<"l","n">>, T_linkedin>>,
     <<T_linkedin, T_linkedin>>, <<<<"l">>, T_linkedin>> >>

\* values are worksheet names; "all" asks for the digest
TABLE_SHORTCUTS ==
  << <<<<"p","p","l">>, "People">>, <<<<"p">>, "People">>, <<T_people, "People">>,
     <<<<"i","d","e","a">>, "Ideas">>, <<T_ideas, "Ideas">>, <<<<"i">>, "Ideas">>,
     <<<<"i","n","t">>, "Interviews">>,
     <<<<"i","n","t","e","r","v","i","e","w">>, "Interviews">>,
     <<T_interviews, "Interviews">>,
     <<T_things, "Things">>, <<<<"t","h","i","n","g">>, "Things">>,
     <<<<"t">>, "Things">>,
     <<<<"l","i">>, "LinkedIn">>, <<<<"l","n">>, "LinkedIn">>,
     <<T_linkedin, "LinkedIn">>, <<<<"l">>, "LinkedIn">>,
     <<<<"a","l","l">>, "all">> >>

\* dict.get(key, default) on a table of <<key, value>> pairs
Lookup(table, key, default) ==
  IF \E i \in 1..Len(table) : table[i][1] = key
  THEN table[CHOOSE i \in 1..Len(table) : table[i][1] = key][2]
  ELSE default

\* the worksheets other than People, in fix_entry's search order
OtherSheets == <<"Ideas", "Interviews", "Things", "LinkedIn">>

SheetOf(bucket) ==
  CASE bucket = T_ideas -> "Ideas"
    [] bucket = T_interviews -> "Interviews"
    [] bucket = T_things -> "Things"
    [] bucket = T_linkedin -> "LinkedIn"
    [] OTHER -> "none"

\* every timestamp
NOW == "now"

\* ------------------------------------------------------- Python values

\* None, a dict and a list, as handle_message can receive them from
\* find_similar_person
PyNone == [kind |-> "none"]
PyDict(d) == [kind |-> "dict", val |-> d]
PyList(l) == [kind |-> "list", val |-> l]

\* bool(v)
Truthy(v) ==
  CASE v.kind = "none" -> FALSE
    [] v.kind = "dict" -> TRUE
    [] v.kind = "list" -> v.val # <<>>

\* len(v): the number of keys of a dict, the length of a list
PyLen(v) ==
  CASE v.kind = "dict" -> Cardinality(DOMAIN v.val)
    [] v.kind = "list" -> Len(v.val)

\* a slot of user_data that holds nothing
Absent == [present |-> FALSE]

\* -------------------------------------------------------- store adapter

\* A People row is [name, context, notes, follow_ups, last_touched,
\* message_id, active]; notes is the list of the note entries that the sheet
\* joins with a bullet.  A row of another sheet is [message_id, active].
\* row_idx counts the header: the i-th data row has row_idx i + 1.

PersonDict(people, i) ==
  [row_idx |-> i + 1, name |-> people[i].name, context |-> people[i].context,
   notes |-> people[i].notes, follow_ups |-> people[i].follow_ups,
   last_touched |-> people[i].last_touched]

MatchDict(people, score, best) ==
  PyDict([row_idx |-> best + 1, name |-> people[best].name,
          context |-> people[best].context, notes |-> people[best].notes,
          follow_ups |-> people[best].follow_ups,
          last_touched |-> people[best].last_touched, score |-> score[best]])

\* classifier.py 111-131: best_match is replaced only by a strictly better
\* score, so the first of the rows with the best score is returned
BestOf(people, score, ok) ==
  IF ok = {} THEN PyNone
  ELSE MatchDict(people, score,
         CHOOSE i \in ok :
           /\ \A j \in ok : ScoreGE(score[i], score[j])
           /\ \A j \in ok : j < i => ScoreGT(score[i], score[j]))

BestMatch(people, score) ==
  BestOf(people, score,
         {i \in 1..Len(people) :
            people[i].active /\ ScoreGE(score[i], MatchThreshold)})

\* find_similar_person: the first active row with the best score of at
\* least 0.8, or None; None as well when the sheet cannot be read
find_similar_person(people, name, read_ok) ==
  IF ~read_ok THEN PyNone
  ELSE BestMatch(people,
         [i \in 1..Len(people) |-> fuzzy_match_name(name, people[i].name)])

\* get_all_people: the active rows, [] when the sheet cannot be read
get_all_people(people, read_ok) ==
  IF ~read_ok THEN <<>>
  ELSE LET F[i \in 0..Len(people)] ==
             IF i = 0 THEN <<>>
             ELSE IF people[i].active THEN Append(F[i - 1], PersonDict(people, i))
             ELSE F[i - 1]
       IN  F[Len(people)]

T_sep == <<" ","|"," ">>
T_comma == <<","," ">>

\* classifier.py 161-171: the follow-ups and the context after an append
MergedFollowUps(cur, fields) ==
  IF fields.follow_ups # <<>>
  THEN IF cur.follow_ups # <<>>
       THEN cur.follow_ups \o T_sep \o fields.follow_ups
       ELSE fields.follow_ups
  ELSE cur.follow_ups

MergedContext(cur, fields) ==
  IF fields.context # <<>> /\ ~Contains(Lower(fields.context), Lower(cur.context))
  THEN IF cur.context # <<>>
       THEN cur.context \o T_comma \o fields.context
       ELSE fields.context
  ELSE cur.context

\* append_to_person: [ok, people]
append_to_person(people, row_idx, new_text, fields, message_id, write_ok) ==
  IF ~write_ok \/ row_idx - 1 \notin 1..Len(people)
  THEN [ok |-> FALSE, people |-> people]
  ELSE [ok |-> TRUE,
        people |-> [people EXCEPT ![row_idx - 1] =
                      [@ EXCEPT !.notes = Append(@, new_text),
                                !.last_touched = NOW,
                                !.message_id = message_id,
                                !.follow_ups = MergedFollowUps(people[row_idx - 1], fields),
                                !.context = MergedContext(people[row_idx - 1], fields)]]]

\* classifier.py 272-286: the row of an existing person after an update
UpdatedPerson(cur, fields, captured_text, message_id) ==
  [cur EXCEPT !.notes = Append(@, captured_text),
              !.last_touched = NOW,
              !.message_id = message_id,
              !.follow_ups = IF fields.follow_ups # <<>> THEN fields.follow_ups ELSE @]

\* classifier.py 288-298
NewPerson(name, fields, captured_text, message_id) ==
  [name |-> name, context |-> fields.context, notes |-> <<captured_text>>,
   follow_ups |-> fields.follow_ups, last_touched |-> NOW,
   message_id |-> message_id, active |-> TRUE]

SaveNamed(people, name, same, fields, captured_text, message_id, force_new) ==
  IF name = <<>> THEN [ok |-> FALSE, people |-> people]
  ELSE IF ~force_new /\ same # {}
  THEN [ok |-> TRUE,
        people |-> [people EXCEPT ![SetMin(same)] =
                      UpdatedPerson(@, fields, captured_text, message_id)]]
  ELSE [ok |-> TRUE,
        people |-> Append(people, NewPerson(name, fields, captured_text, message_id))]

\* the active rows whose name is this one but for case
SameName(people, name) ==
  {i \in 1..Len(people) : Lower(people[i].name) = Lower(name) /\ people[i].active}

\* save_or_update_person: [ok, people]
save_or_update_person(people, fields, captured_text, message_id, force_new) ==
  SaveNamed(people, Strip(fields.name), SameName(people, Strip(fields.name)),
            fields, captured_text, message_id, force_new)

SavedPerson(r, sheets) == [ok |-> r.ok, people |-> r.people, sheets |-> sheets]

\* save_entry: [ok, people, sheets]
save_entry(people, sheets, captured_text, classification, message_id, force_new, write_ok) ==
  IF ~write_ok THEN [ok |-> FALSE, people |-> people, sheets |-> sheets]
  ELSE IF classification.bucket = T_people
  THEN SavedPerson(save_or_update_person(people, classification.fields,
                                         captured_text, message_id, force_new),
                   sheets)
  ELSE IF SheetOf(classification.bucket) # "none"
  THEN [ok |-> TRUE, people |-> people,
        sheets |-> [sheets EXCEPT ![SheetOf(classification.bucket)] =
                      Append(@, [message_id |-> message_id, active |-> TRUE])]]
  ELSE [ok |-> FALSE, people |-> people, sheets |-> sheets]

\* classifier.py 391-432, once the sheet that holds the row is known
FixSaved(saved, old, fixed) ==
  [ok |-> TRUE, old |-> old, people |-> saved.people, sheets |-> saved.sheets,
   classification |-> fixed]

FixInPeople(people, sheets, p, message_id, original_text, fixed, write_ok) ==
  FixSaved(save_entry([people EXCEPT ![p].active = FALSE], sheets, original_text,
                      fixed, message_id, FALSE, write_ok),
           "People", fixed)

FixInSheet(people, sheets, s, r, message_id, original_text, fixed, write_ok) ==
  FixSaved(save_entry(people, [sheets EXCEPT ![s][r].active = FALSE],
                      original_text, fixed, message_id, FALSE, write_ok),
           s, fixed)

\* rows of a worksheet that carry message_id
RowsWith(rows, message_id) ==
  {i \in 1..Len(rows) : rows[i].message_id = message_id}

FixFound(people, sheets, inPeople, hitSheets, message_id, original_text, fixed, write_ok) ==
  IF inPeople # {}
  THEN FixInPeople(people, sheets, SetMin(inPeople), message_id, original_text,
                   fixed, write_ok)
  ELSE FixInSheet(people, sheets, OtherSheets[SetMin(hitSheets)],
                  SetMin(RowsWith(sheets[OtherSheets[SetMin(hitSheets)]], message_id)),
                  message_id, original_text, fixed, write_ok)

FixSearch(people, sheets, inPeople, hitSheets, message_id, new_bucket, original_text, classification, read_ok, write_ok) ==
  IF ~read_ok \/ (inPeople = {} /\ hitSheets = {})
  THEN [ok |-> FALSE, old |-> "none", people |-> people, sheets |-> sheets,
        classification |-> classification]
  ELSE IF ~write_ok
  THEN [ok |-> FALSE, old |-> "none", people |-> people, sheets |-> sheets,
        classification |-> classification]
  ELSE FixFound(people, sheets, inPeople, hitSheets, message_id, original_text,
                [classification EXCEPT !.bucket = new_bucket, !.confidence = 100],
                write_ok)

\* fix_entry: the first row that carries message_id, active or not, is marked
\* inactive and the entry is saved again under new_bucket; the result of that
\* save is not looked at.  A store that cannot be read or written makes the
\* search or update_cell raise, and fix_entry returns (False, None).
\* classification is changed in place, so the caller's last_message sees the
\* new bucket.  [ok, old, people, sheets, classification]
fix_entry(people, sheets, message_id, new_bucket, original_text, classification, read_ok, write_ok) ==
  FixSearch(people, sheets, RowsWith(people, message_id),
            {k \in 1..Len(OtherSheets) :
               RowsWith(sheets[OtherSheets[k]], message_id) # {}},
            message_id, new_bucket, original_text, classification,
            read_ok, write_ok)

\* ------------------------------------------------- gateway (classifier)

NoFields == [name |-> <<>>, context |-> <<>>, follow_ups |-> <<>>]

\* Confidence is a percentage; the confirmation threshold is 0.6
CONFIDENCE_THRESHOLD == 60

needs_confirmation(confidence) == confidence <= CONFIDENCE_THRESHOLD

\* what classify returns when the gateway call or the parse of its result fails
FallbackClassification ==
  [bucket |-> T_things, confidence |-> 0, fields |-> NoFields]

\* classify: the gateway's answer, or the fallback when it failed
classify(answer) == IF answer.ok THEN answer.result ELSE FallbackClassification

\* --------------------------------------------------------------- inputs

N_Alex == <<"A","l","e","x">>
X_google == <<"w","o","r","k","s"," ","a","t"," ","G","o","o","g","l","e">>
X_linkedin == <<"w","o","r","k","s"," ","a","t"," ","L","i","n","k","e","d","I","n">>
X_roommate == <<"r","o","o","m","m","a","t","e">>

M_things == <<"t","h","i","n","g","s">>
M_LinkedIn == <<"L","i","n","k","e","d","I","n"," ">>
M_yes == <<"y","e","s">>
M_new == <<"n","e","w">>
M_one == <<"1">>
M_nine == <<"9">>
M_google == <<"g","o","o","g","l","e">>
M_banana == <<"b","a","n","a","n","a">>
M_who == <<"w","h","o"," ","i","s"," ","a","l","e","x","?">>
M_fix == <<"f","i","x"," ","i","d","e","a","s">>
M_top == <<"t","o","p"," ","p","e","o","p","l","e">>

\* the texts a user sends
Messages ==
  {M_things, M_LinkedIn, M_yes, M_new, M_one, M_nine, M_google, M_banana,
   M_who, M_fix, M_top}

\* the texts as handle_message sees them (main.py 222)
\* a bare bucket token and two more fix commands
M_people == <<"p","e","o","p","l","e">>
M_fix_people == <<"f","i","x"," ","p","e","o","p","l","e">>
M_fix_linkedin == <<"f","i","x",":"," ","L","i","n","k","e","d","I","n">>

RefileMessages == {M_people, M_fix_people, M_fix_linkedin}

UserMessages == {Strip(text) : text \in Messages \cup RefileMessages}

\* parse_confirmation on each of them, evaluated once
Confirmation == [m \in UserMessages |-> parse_confirmation(m)]

\* is_person_question: the gateway tells a question about people from a note
is_person_question(user_message) == user_message \in {M_who}

\* what the gateway may answer for a text; a failed call has ok = FALSE
K_low == [bucket |-> T_things, confidence |-> 45, fields |-> NoFields]
K_edge == [bucket |-> T_ideas, confidence |-> 60, fields |-> NoFields]
K_things == [bucket |-> T_things, confidence |-> 90, fields |-> NoFields]
K_alex_low ==
  [bucket |-> T_people, confidence |-> 45,
   fields |-> [name |-> N_Alex, context |-> X_roommate, follow_ups |-> <<>>]]
K_alex ==
  [bucket |-> T_people, confidence |-> 90,
   fields |-> [name |-> N_Alex, context |-> <<>>, follow_ups |-> <<>>]]
K_noname == [bucket |-> T_people, confidence |-> 90, fields |-> NoFields]

GatewayAnswers(user_message) ==
  {[ok |-> FALSE, result |-> FallbackClassification]} \cup
  {[ok |-> TRUE, result |-> k] :
     k \in IF user_message = M_banana
           THEN {K_low, K_edge, K_things, K_alex_low, K_alex, K_noname}
           ELSE {K_things}}

\* the People sheet before the first message
PersonRow(name, context, active) ==
  [name |-> name, context |-> context, notes |-> <<>>, follow_ups |-> <<>>,
   last_touched |-> NOW, message_id |-> 0, active |-> active]

InitialPeople ==
  { <<>>,
    <<PersonRow(N_Alex, X_google, TRUE)>>,
    <<PersonRow(N_Alex, X_google, TRUE), PersonRow(N_Alex, X_linkedin, TRUE)>> }

\* how many messages a behaviour handles
MaxMessages == 3

\* --------------------------------------------------------------- state

VARIABLES
  user_data,   \* context.user_data of the chat: the pending slots and last_message
  people,      \* the People worksheet
  sheets,      \* the Ideas, Interviews, Things and LinkedIn worksheets
  next_id,     \* message_id of the next update
  msg,         \* text of the message handled last
  pre,         \* user_data when that message arrived
  pre_people,  \* the People worksheet when that message arrived
  pre_sheets,  \* the other worksheets when that message arrived
  calls,       \* store and gateway calls made while handling it
  replies,     \* reply_text calls made while handling it
  raised,      \* whether an exception left handle_message
  input,       \* the argument a pure function is applied to
  output       \* its result, "none" before it is applied

vars ==
  <<user_data, people, sheets, next_id, msg, pre, pre_people, pre_sheets, calls,
    replies, raised, input, output>>

\* ------------------------------------------------------- handle_message

\* The handler's progress is a record [ud, people, sheets, calls, replies,
\* raised, done]; done is set by a return and by an exception.
Reply(e, kind, n, lists) ==
  [e EXCEPT !.replies = Append(@, [kind |-> kind, n |-> n, lists |-> lists])]
Return(e) == [e EXCEPT !.done = TRUE]
Raise(e) == [e EXCEPT !.raised = TRUE, !.done = TRUE]
Call(e, c) == [e EXCEPT !.calls = Append(@, c)]

\* Only identifier words longer than this are compared with the reply
IdWordMinLen == 2

\* main.py 262-263 and 475-476: a word of the identifier phrase occurs in
\* the reply
WordHit(identifier, id_words, user_lower) ==
  /\ identifier # <<>>
  /\ \E k \in 1..Len(id_words) :
        Len(id_words[k]) > IdWordMinLen /\ Contains(id_words[k], user_lower)

IdWords(identifier) ==
  Split(Replace(Replace(Lower(identifier), T_from, <<>>), T_your, <<>>))

PhraseHit(identifier, user_lower) ==
  WordHit(identifier, IdWords(identifier), user_lower)

\* main.py 260-263 and 473-476 for one candidate
IdentifierHit(context, user_lower) ==
  PhraseHit(extract_identifier(context), user_lower)

FirstOf(hits) == IF hits = {} THEN 0 ELSE SetMin(hits)

\* index of the first candidate with an identifier hit, 0 when there is none
FirstIdentifierHit(matches, user_lower) ==
  FirstOf({i \in 1..Len(matches) : IdentifierHit(matches[i].context, user_lower)})

Names(matches) == [i \in 1..Len(matches) |-> matches[i].name]

\* main.py 236-239, 248-251, 265-268: answer the pending question
AnswerPending(e, selected) ==
  Return(Reply(Call([e EXCEPT !.ud.pending_person_question = Absent],
                    [op |-> "answer_people_query",
                     question |-> e.ud.pending_person_question.original_question,
                     people |-> <<selected>>]),
               "answer", 0, <<>>))

\* QuestionSelect answering with the last candidate whatever the number
QuestionSelect_Last(e, matches, idx) ==
  IF 0 <= idx /\ idx < Len(matches)
  THEN AnswerPending(e, matches[Len(matches)])
  ELSE Return(Reply(e, "pick_number", Len(matches), <<>>))

\* main.py 232-242
QuestionSelect(e, matches, idx) ==
  IF 0 <= idx /\ idx < Len(matches)
  THEN AnswerPending(e, matches[idx + 1])
  ELSE Return(Reply(e, "pick_number", Len(matches), <<>>))

\* QuestionIdentifier without the del at main.py 271
QuestionIdentifier_Kept(e, matches, hit) ==
  IF hit # 0 THEN AnswerPending(e, matches[hit])
  ELSE e

\* main.py 257-271
QuestionIdentifier(e, matches, hit) ==
  IF hit # 0 THEN AnswerPending(e, matches[hit])
  ELSE [e EXCEPT !.ud.pending_person_question = Absent]

\* QuestionDecide without the del at main.py 253
QuestionDecide_Kept(e, matches, confirmation, user_message) ==
  IF confirmation = "CONFIRM" /\ Len(matches) = 1
  THEN AnswerPending(e, matches[1])
  ELSE IF confirmation = "DENY"
  THEN Return(Reply(e, "nevermind", 0, <<>>))
  ELSE QuestionIdentifier(e, matches,
                          FirstIdentifierHit(matches, Lower(user_message)))

\* main.py 244-271
QuestionDecide(e, matches, confirmation, user_message) ==
  IF confirmation = "CONFIRM" /\ Len(matches) = 1
  THEN AnswerPending(e, matches[1])
  ELSE IF confirmation = "DENY"
  THEN Return(Reply([e EXCEPT !.ud.pending_person_question = Absent],
                    "nevermind", 0, <<>>))
  ELSE QuestionIdentifier(e, matches,
                          FirstIdentifierHit(matches, Lower(user_message)))

\* main.py 227-271
PersonQuestionSection(e, user_message) ==
  IF ~e.ud.pending_person_question.present THEN e
  ELSE IF IsDigit(Strip(user_message))
  THEN QuestionSelect(e, e.ud.pending_person_question.matches,
                      ToInt(Strip(user_message)) - 1)
  ELSE QuestionDecide(e, e.ud.pending_person_question.matches,
                      Confirmation[user_message], user_message)

strip_words ==
  << <<"t","e","l","l"," ","m","e"," ","a","b","o","u","t">>,
     <<"t","e","l","l"," ","a","b","o","u","t">>,
     <<"w","h","a","t"," ","a","b","o","u","t">>,
     <<"w","h","o"," ","i","s">>, <<"w","h","o","'","s">>,
     <<"s","h","o","w"," ","m","e">> >>

\* main.py 326-330: the first of strip_words that starts the query is cut off
CutQuestion(query_lower, starts) ==
  IF starts = {} THEN query_lower
  ELSE Strip(Drop(query_lower, Len(strip_words[SetMin(starts)])))

CutStart(query_lower) ==
  CutQuestion(query_lower,
              {i \in 1..Len(strip_words) : StartsWith(query_lower, strip_words[i])})

\* main.py 324-330: the name a question asks about
ExtractedName(query) == CutStart(RStrip(Strip(Lower(query)), {"?", "!", "."}))

\* main.py 334: the people whose name is the extracted one but for case
RECURSIVE NameMatches(_, _)
NameMatches(all_people, name_lower) ==
  IF all_people = <<>> THEN <<>>
  ELSE IF Lower(Head(all_people).name) = name_lower
  THEN <<Head(all_people)>> \o NameMatches(Tail(all_people), name_lower)
  ELSE NameMatches(Tail(all_people), name_lower)

\* QuestionAnswer asking "which one" for a single match as well
QuestionAnswer_AskForOne(e, query, all_people, extracted_name, name_matches) ==
  IF extracted_name # <<>> /\ Len(name_matches) >= 1
  THEN Return(Reply(
         [e EXCEPT !.ud.pending_person_question =
            [present |-> TRUE, original_question |-> query,
             matches |-> name_matches]],
         "which_person", Len(name_matches), Names(name_matches)))
  ELSE Return(Reply(Call(e, [op |-> "answer_people_query",
                             question |-> query, people |-> all_people]),
                    "answer", 0, <<>>))

\* main.py 333-358
QuestionAnswer(e, query, all_people, extracted_name, name_matches) ==
  IF extracted_name # <<>> /\ Len(name_matches) > 1
  THEN Return(Reply(
         [e EXCEPT !.ud.pending_person_question =
            [present |-> TRUE, original_question |-> query,
             matches |-> name_matches]],
         "which_person", Len(name_matches), Names(name_matches)))
  ELSE Return(Reply(Call(e, [op |-> "answer_people_query",
                             question |-> query, people |-> all_people]),
                    "answer", 0, <<>>))

QuestionAbout(e, query, all_people, extracted_name) ==
  QuestionAnswer(e, query, all_people, extracted_name,
                 NameMatches(all_people, Lower(extracted_name)))

\* main.py 315-358
QuestionPeople(e, query, all_people) ==
  IF all_people = <<>>
  THEN Return(Reply(e, "no_people", 0, <<>>))
  ELSE QuestionAbout(e, query, all_people, ExtractedName(query))

\* main.py 306-358
QuestionSection(e, user_message, read_ok) ==
  IF ~is_person_question(user_message) THEN e
  ELSE QuestionPeople(e, user_message, get_all_people(e.people, read_ok))

T_top == <<"t","o","p">>

\* main.py 362-388
TopTable(e, table_name, read_ok) ==
  IF table_name = "all"
  THEN Return(Reply(e, IF read_ok THEN "digest" ELSE "could_not_fetch", 0, <<>>))
  ELSE IF table_name # "none"
  THEN Return(Reply(e, "top_items", 0, <<>>))
  ELSE Return(Reply(e, "unknown_table", 0, <<>>))

\* main.py 360-388; nothing is written
TopSection(e, user_message_lower, read_ok) ==
  IF ~StartsWith(user_message_lower, T_top) THEN e
  ELSE TopTable(e, Lookup(TABLE_SHORTCUTS,
                          Strip(Replace(user_message_lower, T_top, <<>>)), "none"),
                read_ok)

T_fix == <<"f","i","x">>
T_fx == <<"f","x">>
T_fix_colon == <<"f","i","x",":">>
T_fx_colon == <<"f","x",":">>

\* main.py 398-408
Fixed(e, last, new_bucket, r) ==
  Return(Reply(
    Call([e EXCEPT !.people = r.people, !.sheets = r.sheets,
                   !.ud.last_message.classification = r.classification],
         [op |-> "fix_entry", message_id |-> last.message_id,
          bucket |-> new_bucket, ok |-> r.ok]),
    IF r.ok THEN "fixed" ELSE "could_not_find", 0, <<>>))

\* main.py 395-415
FixBucket(e, new_bucket, last, read_ok, write_ok) ==
  IF ~InList(new_bucket, BucketTokens)
  THEN Return(Reply(e, "invalid_category", 0, <<>>))
  ELSE IF ~last.present
  THEN Return(Reply(e, "no_recent_message", 0, <<>>))
  ELSE Fixed(e, last, new_bucket,
             fix_entry(e.people, e.sheets, last.message_id, new_bucket,
                       last.original_text, last.classification, read_ok, write_ok))

\* main.py 392
FixTyped(user_message_lower) ==
  Strip(Replace(Replace(Replace(Replace(user_message_lower,
        T_fix_colon, <<>>), T_fix, <<>>), T_fx_colon, <<>>), T_fx, <<>>))

ShortcutOr(typed) == Lookup(BUCKET_SHORTCUTS, typed, typed)

\* FixSection entered only while no correction and no merge is pending
FixSection_AfterPending(e, user_message_lower, read_ok, write_ok) ==
  IF \/ ~(StartsWith(user_message_lower, T_fix) \/ StartsWith(user_message_lower, T_fx))
     \/ e.ud.pending_message.present
     \/ e.ud.pending_merge.present
  THEN e
  ELSE FixBucket(e, ShortcutOr(FixTyped(user_message_lower)), e.ud.last_message,
                 read_ok, write_ok)

\* main.py 390-415
FixSection(e, user_message_lower, read_ok, write_ok) ==
  IF ~(StartsWith(user_message_lower, T_fix) \/ StartsWith(user_message_lower, T_fx))
  THEN e
  ELSE FixBucket(e, ShortcutOr(FixTyped(user_message_lower)), e.ud.last_message,
                 read_ok, write_ok)

SaveCall(text, classification, message_id, force_new, ok) ==
  [op |-> "save_entry", text |-> text, classification |-> classification,
   message_id |-> message_id, force_new |-> force_new, ok |-> ok]

LastMessage(message_id, text, classification) ==
  [present |-> TRUE, message_id |-> message_id, original_text |-> text,
   classification |-> classification]

\* main.py 426-441: last_message is set on success only, pending_message is
\* deleted whatever save_entry returned
Corrected(e, pending, classification, r) ==
  Return(Reply(
    Call([e EXCEPT !.people = r.people, !.sheets = r.sheets,
                   !.ud.pending_message = Absent,
                   !.ud.last_message =
                      IF r.ok
                      THEN LastMessage(pending.message_id, pending.original_text,
                                       classification)
                      ELSE @],
         SaveCall(pending.original_text, classification, pending.message_id,
                  FALSE, r.ok)),
    IF r.ok THEN "corrected" ELSE "error_saving", 0, <<>>))

\* main.py 420-424
Correct(e, pending, classification, write_ok) ==
  Corrected(e, pending, classification,
            save_entry(e.people, e.sheets, pending.original_text, classification,
                       pending.message_id, FALSE, write_ok))

\* main.py 417-441: a bucket token while a bucket correction is pending
CorrectionSection(e, user_message_lower, write_ok) ==
  IF ~(InList(user_message_lower, BucketTokens) /\ e.ud.pending_message.present)
  THEN e
  ELSE Correct(e, e.ud.pending_message,
               [e.ud.pending_message.classification EXCEPT
                  !.bucket = user_message_lower, !.confidence = 100],
               write_ok)

Merged(e, person, pending, r) ==
  Return(Reply(
    Call([e EXCEPT !.people = r.people, !.ud.pending_merge = Absent],
         [op |-> "append_to_person", row_idx |-> person.row_idx,
          text |-> pending.original_text,
          fields |-> pending.classification.fields,
          message_id |-> pending.message_id, ok |-> r.ok]),
    IF r.ok THEN "added" ELSE "error_updating", 0, <<>>))

\* main.py 453-465, 477-489, 496-525: append the pending text to a candidate
MergeInto(e, person, write_ok) ==
  Merged(e, person, e.ud.pending_merge,
         append_to_person(e.people, person.row_idx,
                          e.ud.pending_merge.original_text,
                          e.ud.pending_merge.classification.fields,
                          e.ud.pending_merge.message_id, write_ok))

SavedNew(e, pending, r) ==
  Return(Reply(
    Call([e EXCEPT !.people = r.people, !.sheets = r.sheets,
                   !.ud.pending_merge = Absent],
         SaveCall(pending.original_text, pending.classification,
                  pending.message_id, TRUE, r.ok)),
    IF r.ok THEN "new_saved" ELSE "error_saving", 0, <<>>))

\* main.py 527-539: DENY saves the pending message as a new person
SaveAsNew(e, write_ok) ==
  SavedNew(e, e.ud.pending_merge,
           save_entry(e.people, e.sheets, e.ud.pending_merge.original_text,
                      e.ud.pending_merge.classification,
                      e.ud.pending_merge.message_id, TRUE, write_ok))

\* main.py 449-468.  On a dict, all_matches[idx] raises KeyError.
MergeSelect(e, all_matches, idx, write_ok) ==
  IF 0 <= idx /\ idx < PyLen(all_matches)
  THEN IF all_matches.kind = "dict" THEN Raise(e)
       ELSE MergeInto(e, all_matches.val[idx + 1], write_ok)
  ELSE Return(Reply(e, "pick_number", PyLen(all_matches), <<>>))

\* main.py 491-544
MergeConfirm(e, pending, confirmation, write_ok) ==
  IF confirmation = "CONFIRM"
  THEN IF Truthy(pending.existing_person)
       THEN MergeInto(e, pending.existing_person.val, write_ok)
       ELSE IF PyLen(pending.all_matches) = 1
       THEN MergeInto(e, pending.all_matches.val[1], write_ok)
       ELSE Return(Reply(e, "please_pick", 0, <<>>))
  ELSE IF confirmation = "DENY" THEN SaveAsNew(e, write_ok)
  ELSE [e EXCEPT !.ud.pending_merge = Absent]

\* main.py 470-544
MergeDecide(e, matches, hit, confirmation, write_ok) ==
  IF hit # 0 THEN MergeInto(e, matches[hit], write_ok)
  ELSE MergeConfirm(e, e.ud.pending_merge, confirmation, write_ok)

\* main.py 470-544.  A loop over a dict yields its keys, and match.get on a
\* key raises AttributeError; a loop over an empty list does nothing.
MergeScan(e, all_matches, user_message, write_ok) ==
  IF all_matches.kind = "dict" THEN Raise(e)
  ELSE MergeDecide(e, all_matches.val,
                   FirstIdentifierHit(all_matches.val, Lower(user_message)),
                   Confirmation[user_message], write_ok)

\* main.py 443-544.  all_matches is what find_similar_person returned.
MergeSection(e, user_message, write_ok) ==
  IF ~e.ud.pending_merge.present THEN e
  ELSE IF IsDigit(Strip(user_message))
  THEN MergeSelect(e, e.ud.pending_merge.all_matches,
                   ToInt(Strip(user_message)) - 1, write_ok)
  ELSE MergeScan(e, e.ud.pending_merge.all_matches, user_message, write_ok)

PendingMerge(text, classification, message_id, existing_person, all_matches) ==
  [present |-> TRUE, original_text |-> text, classification |-> classification,
   message_id |-> message_id, existing_person |-> existing_person,
   all_matches |-> all_matches]

\* main.py 578-598: one match.  similar_matches[0] on a dict raises KeyError
\* before pending_merge is stored.
PromptOne(e, user_message, message_id, classification, similar_matches) ==
  IF similar_matches.kind = "dict" THEN Raise(e)
  ELSE Return(Reply(
         [e EXCEPT !.ud.pending_merge =
            PendingMerge(user_message, classification, message_id,
                         PyDict(similar_matches.val[1]), similar_matches)],
         "same_person", 1, <<similar_matches.val[1].name>>))

\* main.py 600-620: several matches.  pending_merge is stored, then the loop
\* over a dict yields its keys and m.get on a key raises AttributeError.
PromptMany(e, similar_matches) ==
  IF similar_matches.kind = "dict" THEN Raise(e)
  ELSE Return(Reply(e, "which_one", Len(similar_matches.val),
                    Names(similar_matches.val)))

\* main.py 577-620.  len() of a dict counts its keys.
Prompted(e, user_message, message_id, classification, similar_matches) ==
  IF ~Truthy(similar_matches) THEN e
  ELSE IF PyLen(similar_matches) = 1
  THEN PromptOne(e, user_message, message_id, classification, similar_matches)
  ELSE PromptMany([e EXCEPT !.ud.pending_merge =
                     PendingMerge(user_message, classification, message_id,
                                  PyNone, similar_matches)],
                  similar_matches)

\* main.py 575: the call of find_similar_person and what it returned
Prompt(e, user_message, message_id, classification, similar_matches) ==
  Prompted(Call(e, [op |-> "find_similar_person",
                    name |-> classification.fields.name,
                    result |-> similar_matches]),
           user_message, message_id, classification, similar_matches)

\* main.py 569-620: the merge prompt.  Returns e, not done, when the message
\* is to be saved.
MergePrompt(e, user_message, message_id, classification, read_ok) ==
  IF ~(classification.bucket = T_people /\ classification.fields.name # <<>>)
  THEN e
  ELSE Prompt(e, user_message, message_id, classification,
              find_similar_person(e.people, classification.fields.name, read_ok))

\* Saved with last_message set whatever save_entry returned
Saved_AlwaysRemembered(e, user_message, message_id, classification, r) ==
  Return(Reply(
    Call([e EXCEPT !.people = r.people, !.sheets = r.sheets,
                   !.ud.last_message =
                      LastMessage(message_id, user_message, classification)],
         SaveCall(user_message, classification, message_id, FALSE, r.ok)),
    IF r.ok THEN "saved" ELSE "error_saving", 0, <<>>))

\* main.py 625-664
Saved(e, user_message, message_id, classification, r) ==
  Return(Reply(
    Call([e EXCEPT !.people = r.people, !.sheets = r.sheets,
                   !.ud.last_message =
                      IF r.ok
                      THEN LastMessage(message_id, user_message, classification)
                      ELSE @],
         SaveCall(user_message, classification, message_id, FALSE, r.ok)),
    IF r.ok THEN "saved" ELSE "error_saving", 0, <<>>))

\* Save with the call of save_entry left out
Save_Unsaved(e, user_message, message_id, classification, write_ok) ==
  IF e.done THEN e
  ELSE Return(Reply(
         [e EXCEPT !.ud.last_message =
            LastMessage(message_id, user_message, classification)],
         "saved", 0, <<>>))

\* main.py 622-664
Save(e, user_message, message_id, classification, write_ok) ==
  IF e.done THEN e
  ELSE Saved(e, user_message, message_id, classification,
             save_entry(e.people, e.sheets, user_message, classification,
                        message_id, FALSE, write_ok))

\* Route with the store of pending_message left out
Route_Unstored(e, user_message, message_id, classification, read_ok, write_ok) ==
  IF needs_confirmation(classification.confidence)
  THEN Return(Reply(e, "not_sure", 0, BucketTokens))
  ELSE Save(MergePrompt(e, user_message, message_id, classification, read_ok),
            user_message, message_id, classification, write_ok)

\* main.py 549-664
Route(e, user_message, message_id, classification, read_ok, write_ok) ==
  IF needs_confirmation(classification.confidence)
  THEN Return(Reply(
         [e EXCEPT !.ud.pending_message =
            [present |-> TRUE, original_text |-> user_message,
             classification |-> classification, message_id |-> message_id]],
         "not_sure", 0, BucketTokens))
  ELSE Save(MergePrompt(e, user_message, message_id, classification, read_ok),
            user_message, message_id, classification, write_ok)

Classified(e, user_message, message_id, answer, classification, read_ok, write_ok) ==
  Route(Call(e, [op |-> "classify", text |-> user_message,
                 gateway_ok |-> answer.ok, result |-> classification]),
        user_message, message_id, classification, read_ok, write_ok)

\* NormalSection answering a failed gateway call with an error
NormalSection_Surfaced(e, user_message, message_id, answer, read_ok, write_ok) ==
  IF e.done THEN e
  ELSE IF ~answer.ok
  THEN Return(Reply(Call(e, [op |-> "classify", text |-> user_message,
                             gateway_ok |-> FALSE,
                             result |-> FallbackClassification]),
                    "error", 0, <<>>))
  ELSE Classified(e, user_message, message_id, answer, classify(answer),
                  read_ok, write_ok)

\* main.py 546-664
NormalSection(e, user_message, message_id, answer, read_ok, write_ok) ==
  IF e.done THEN e
  ELSE Classified(e, user_message, message_id, answer, classify(answer),
                  read_ok, write_ok)

\* the sections that come before the classification, each entered unless an
\* earlier one has returned
ThenQuestion(e, user_message, read_ok) ==
  IF e.done THEN e ELSE QuestionSection(e, user_message, read_ok)
ThenTop(e, user_message_lower, read_ok) ==
  IF e.done THEN e ELSE TopSection(e, user_message_lower, read_ok)
ThenFix(e, user_message_lower, read_ok, write_ok) ==
  IF e.done THEN e ELSE FixSection(e, user_message_lower, read_ok, write_ok)
ThenCorrection(e, user_message_lower, write_ok) ==
  IF e.done THEN e ELSE CorrectionSection(e, user_message_lower, write_ok)
ThenMerge(e, user_message, write_ok) ==
  IF e.done THEN e ELSE MergeSection(e, user_message, write_ok)

\* main.py 227-664 on the stripped text
Handle(start, user_message, user_message_lower, message_id, answer, read_ok, write_ok) ==
  NormalSection(
    ThenMerge(
      ThenCorrection(
        ThenFix(
          ThenTop(
            ThenQuestion(PersonQuestionSection(start, user_message),
                         user_message, read_ok),
            user_message_lower, read_ok),
          user_message_lower, read_ok, write_ok),
        user_message_lower, write_ok),
      user_message, write_ok),
    user_message, message_id, answer, read_ok, write_ok)

Start(ud, ppl, shts) ==
  [ud |-> ud, people |-> ppl, sheets |-> shts, calls |-> <<>>,
   replies |-> <<>>, raised |-> FALSE, done |-> FALSE]

\* handle_message (main.py 220-664) on the update with this text and id
handle_message(ud, ppl, shts, text, message_id, answer, read_ok, write_ok) ==
  Handle(Start(ud, ppl, shts), Strip(text), Lower(Strip(text)), message_id,
         answer, read_ok, write_ok)

\* ------------------------------------------------------------- actions

NoUserData ==
  [pending_message |-> Absent, pending_merge |-> Absent,
   pending_person_question |-> Absent, last_message |-> Absent]

\* the session and the store before the first message
NoMessages ==
  /\ user_data = NoUserData
  /\ sheets = [s \in {"Ideas", "Interviews", "Things", "LinkedIn"} |-> <<>>]
  /\ next_id = 1
  /\ msg = <<>>
  /\ pre = NoUserData
  /\ pre_people = people
  /\ pre_sheets = sheets
  /\ calls = <<>>
  /\ replies = <<>>
  /\ raised = FALSE

Init ==
  /\ people \in InitialPeople
  /\ NoMessages
  /\ input = <<>>
  /\ output = "none"

Handled(r) ==
  /\ user_data' = r.ud
  /\ people' = r.people
  /\ sheets' = r.sheets
  /\ calls' = r.calls
  /\ replies' = r.replies
  /\ raised' = r.raised

\* The chat sends a text and handle_message runs to its end
HandleMessage(text) ==
  /\ next_id <= MaxMessages
  /\ \E answer \in GatewayAnswers(Strip(text)), read_ok \in BOOLEAN, write_ok \in BOOLEAN :
       Handled(handle_message(user_data, people, sheets, text, next_id,
                              answer, read_ok, write_ok))
  /\ next_id' = next_id + 1
  /\ msg' = Strip(text)
  /\ pre' = user_data
  /\ pre_people' = people
  /\ pre_sheets' = sheets
  /\ UNCHANGED <<input, output>>

Next == \E text \in Messages : HandleMessage(text)

Spec == Init /\ [][Next]_vars

\* ----------------------------------------------------- numeric replies

M_zero == <<"0">>
M_three == <<"3">>

\* numbers that are no candidate's number when one or two are offered
DigitMessages == {M_zero, M_three}

\* the chat sends the texts of Messages and these numbers
DigitNext == \E text \in Messages \cup DigitMessages : HandleMessage(text)

DigitSpec == Init /\ [][DigitNext]_vars

\* ------------------------------------------- corrections and fix commands

\* the chat sends the texts of Messages, "people" and the other fix commands
RefileNext == \E text \in Messages \cup RefileMessages : HandleMessage(text)

RefileSpec == Init /\ [][RefileNext]_vars

\* ------------------------------------------------- parse_confirmation

R_hello == <<"h","e","l","l","o"," ","t","h","e","r","e">>
R_maybe == <<"m","a","y","b","e"," ","l","a","t","e","r">>
R_Yes == <<" ","Y","E","S"," ">>
R_empty == <<>>
R_look == <<"l","o","o","k">>
R_knob == <<"K","n","o","b">>
R_sure_nope == <<"s","u","r","e"," ","n","o","p","e">>
R_nope_sure == <<"n","o","p","e"," ","s","u","r","e">>
R_oh_nope == <<"o","h"," ","n","o","p","e">>

\* the replies parse_confirmation is applied to: every entry of the two
\* lists as it is written, the texts of the messages, and a few more
Replies ==
  {AFFIRMATIVE[i] : i \in 1..Len(AFFIRMATIVE)} \cup
  {NEGATIVE[i] : i \in 1..Len(NEGATIVE)} \cup
  Messages \cup
  {R_hello, R_maybe, R_Yes, R_empty, R_look, R_knob, R_sure_nope, R_nope_sure,
   R_oh_nope}

ParserInit ==
  /\ people = <<>>
  /\ NoMessages
  /\ input \in Replies
  /\ output = "none"

\* parse_confirmation is applied to the reply
Parse ==
  /\ output = "none"
  /\ output' = parse_confirmation(input)
  /\ UNCHANGED <<user_data, people, sheets, next_id, msg, pre, pre_people,
                 pre_sheets, calls, replies, raised, input>>

ParserNext == Parse

ParserSpec == ParserInit /\ [][ParserNext]_vars

\* --------------------------------------------------- fuzzy_match_name

N_empty == <<>>
N_blank == <<" ">>
N_alex == <<" ","a","l","e","x"," ">>
N_Alexa == <<"A","l","e","x","a">>
N_Alex_Smith == <<"A","l","e","x"," ","S","m","i","t","h">>
N_Alex_Jones == <<"A","l","e","x"," ","J","o","n","e","s">>
N_Bob == <<"B","o","b">>
N_Rob == <<"R","o","b">>
N_Bob_Smith == <<"B","o","b"," ","S","m","i","t","h">>

\* the names fuzzy_match_name is applied to
NameInputs ==
  {N_empty, N_blank, N_Alex, N_alex, N_Alexa, N_Alex_Smith, N_Alex_Jones,
   N_Bob, N_Rob, N_Bob_Smith}

MatcherInit ==
  /\ people = <<>>
  /\ NoMessages
  /\ input \in NameInputs \X NameInputs
  /\ output = "none"

\* fuzzy_match_name is applied to the two names
Score ==
  /\ output = "none"
  /\ output' = fuzzy_match_name(input[1], input[2])
  /\ UNCHANGED <<user_data, people, sheets, next_id, msg, pre, pre_people,
                 pre_sheets, calls, replies, raised, input>>

MatcherNext == Score

MatcherSpec == MatcherInit /\ [][MatcherNext]_vars

\* --------------------------------------------------- extract_identifier

F_work == <<"W","o","r","k","s"," ","a","t"," ","G","o","o","g","l","e">>
F_rel == <<"m","y"," ","r","o","o","m","m","a","t","e">>
F_loc == <<"l","i","v","e","s"," ","i","n"," ","P","a","r","i","s",".">>
F_event == <<"m","e","t"," ","a","t","\t","P","y","C","o","n">>
F_plain == <<"t","a","l","l"," ","g","u","y">>
F_open == <<"w","o","r","k","s"," ","a","t">>

\* the pieces a context is made of
Fragments == <<F_work, F_rel, F_loc, F_event, F_plain, F_open>>

\* Contexts are made of at most this number of pieces
MaxFragments == 3

\* the context that lists these pieces, separated by commas
RECURSIVE Listed(_)
Listed(picks) ==
  IF picks = <<>> THEN <<>>
  ELSE IF Len(picks) = 1 THEN Fragments[picks[1]]
  ELSE Fragments[picks[1]] \o T_comma \o Listed(Tail(picks))

\* the selections of different pieces, in every order
Picks ==
  UNION {{p \in [1..n -> 1..Len(Fragments)] :
            \A i, j \in 1..n : i # j => p[i] # p[j]} : n \in 0..MaxFragments}

\* the contexts extract_identifier is applied to
Contexts == {Listed(p) : p \in Picks}

IdentifierInit ==
  /\ people = <<>>
  /\ NoMessages
  /\ input \in Contexts
  /\ output = "none"

\* extract_identifier is applied to the context; the result is kept in a
\* tuple so that an empty result differs from no result
Extract ==
  /\ output = "none"
  /\ output' = <<extract_identifier(input)>>
  /\ UNCHANGED <<user_data, people, sheets, next_id, msg, pre, pre_people,
                 pre_sheets, calls, replies, raised, input>>

IdentifierNext == Extract

IdentifierSpec == IdentifierInit /\ [][IdentifierNext]_vars

\* ----------------------------------------------------------- properties

\* a message has been handled: msg, pre, calls, replies and raised tell of it
SomeHandled == next_id > 1

\* message_id of the message handled last
LastId == next_id - 1

PendingKinds(ud) ==
  {k \in {"pending_message", "pending_merge", "pending_person_question"} :
     ud[k].present}

SaveCalls == {i \in 1..Len(calls) : calls[i].op = "save_entry"}
AppendCalls == {i \in 1..Len(calls) : calls[i].op = "append_to_person"}
ClassifyCalls == {i \in 1..Len(calls) : calls[i].op = "classify"}

\* the reply was a bucket token (main.py 418)
TokenReply == InList(Lower(msg), BucketTokens)

\* the people a pending merge offers: find_similar_person's result is one
\* person when it is a dict
Candidates(pending) ==
  IF pending.all_matches.kind = "dict" THEN <<pending.all_matches.val>>
  ELSE pending.all_matches.val

\* exactly one append_to_person, for this row and the pending message
AppendedOnceTo(row_idx, pending) ==
  /\ Cardinality(AppendCalls) = 1
  /\ \A i \in AppendCalls :
        /\ calls[i].row_idx = row_idx
        /\ calls[i].text = pending.original_text
        /\ calls[i].fields = pending.classification.fields
        /\ calls[i].message_id = pending.message_id

\* C1: at most one of pending_message, pending_merge and
\* pending_person_question is present in the session at any time
C1_AtMostOnePending == Cardinality(PendingKinds(user_data)) <= 1

\* C1 (reached): a question about a name that two people carry was asked
\* while a bucket correction was pending
C1_QuestionWhilePending ==
  /\ SomeHandled
  /\ pre.pending_message.present
  /\ ~pre.pending_person_question.present
  /\ user_data.pending_person_question.present

\* C2: a reply that is no bucket token, sent while a bucket correction is
\* pending, leaves that bucket correction out of the session
C2_NonTokenAbandonsCorrection ==
  (SomeHandled /\ pre.pending_message.present /\ ~TokenReply)
    => user_data.pending_message # pre.pending_message

\* C2 (reached): such a reply was classified and saved
C2_NonTokenSaved ==
  /\ SomeHandled
  /\ pre.pending_message.present
  /\ ~TokenReply
  /\ \E i \in SaveCalls : calls[i].ok /\ calls[i].text = msg

\* C3: when the save for a pending bucket correction fails, the reply is the
\* error reply and the pending bucket correction stays as it was
C3_FailedSaveKeepsPending ==
  (/\ SomeHandled
   /\ pre.pending_message.present
   /\ \E i \in SaveCalls :
         ~calls[i].ok /\ calls[i].message_id = pre.pending_message.message_id)
    => /\ \E j \in 1..Len(replies) : replies[j].kind = "error_saving"
       /\ user_data.pending_message = pre.pending_message

\* C3 (reached): the save for a pending bucket correction failed and the
\* error reply was sent
C3_FailedSaveReported ==
  /\ SomeHandled
  /\ pre.pending_message.present
  /\ \E i \in SaveCalls :
        ~calls[i].ok /\ calls[i].message_id = pre.pending_message.message_id
  /\ \E j \in 1..Len(replies) : replies[j].kind = "error_saving"

\* C4: a bucket token sent while a bucket correction is pending makes exactly
\* one save_entry call, for the pending text and id with the bucket set to the
\* token and the confidence to 1.0; after a successful save no bucket
\* correction is pending and no other pending interaction has been created
C4_TokenSavesPending ==
  (SomeHandled /\ pre.pending_message.present /\ TokenReply)
    => /\ Cardinality(SaveCalls) = 1
       /\ \A i \in SaveCalls :
             /\ calls[i].text = pre.pending_message.original_text
             /\ calls[i].message_id = pre.pending_message.message_id
             /\ calls[i].classification =
                  [pre.pending_message.classification EXCEPT
                     !.bucket = Lower(msg), !.confidence = 100]
             /\ calls[i].ok =>
                  /\ ~user_data.pending_message.present
                  /\ PendingKinds(user_data) \subseteq PendingKinds(pre)

\* C4 (reached): a bucket token was sent while a bucket correction and a
\* person question were both pending
C4_TokenWhileQuestionPending ==
  /\ SomeHandled
  /\ pre.pending_message.present
  /\ pre.pending_person_question.present
  /\ TokenReply

\* C5: CONFIRM on a pending merge with one candidate appends the pending
\* message to that candidate exactly once, saves no new record and clears the
\* pending merge
C5_ConfirmMergesIntoCandidate ==
  (/\ SomeHandled
   /\ pre.pending_merge.present
   /\ Len(Candidates(pre.pending_merge)) = 1
   /\ Confirmation[msg] = "CONFIRM")
    => /\ AppendedOnceTo(Candidates(pre.pending_merge)[1].row_idx, pre.pending_merge)
       /\ SaveCalls = {}
       /\ ~user_data.pending_merge.present

\* C5 (reached): CONFIRM was sent while a merge with one candidate was pending
C5_ConfirmSent ==
  /\ SomeHandled
  /\ pre.pending_merge.present
  /\ Len(Candidates(pre.pending_merge)) = 1
  /\ Confirmation[msg] = "CONFIRM"

\* C6: DENY on a pending merge with one candidate saves a new record through
\* save_entry and makes no append_to_person call
C6_DenySavesNew ==
  (/\ SomeHandled
   /\ pre.pending_merge.present
   /\ Len(Candidates(pre.pending_merge)) = 1
   /\ Confirmation[msg] = "DENY")
    => /\ \E i \in SaveCalls :
             /\ calls[i].force_new
             /\ calls[i].text = pre.pending_merge.original_text
             /\ calls[i].message_id = pre.pending_merge.message_id
       /\ AppendCalls = {}

\* C6 (reached): DENY was sent while a merge with one candidate was pending
C6_DenySent ==
  /\ SomeHandled
  /\ pre.pending_merge.present
  /\ Len(Candidates(pre.pending_merge)) = 1
  /\ Confirmation[msg] = "DENY"

\* C7: DENY on a pending merge, with the store writable, appends one new row
\* to People for the pending message and changes no row that was there
C7_DenyAppendsRow ==
  (/\ SomeHandled
   /\ pre.pending_merge.present
   /\ Confirmation[msg] = "DENY"
   /\ \A i \in 1..Len(calls) : "ok" \in DOMAIN calls[i] => calls[i].ok)
    => /\ Len(people) = Len(pre_people) + 1
       /\ SubSeq(people, 1, Len(pre_people)) = pre_people
       /\ people[Len(people)].message_id = pre.pending_merge.message_id
       /\ people[Len(people)].notes = <<pre.pending_merge.original_text>>

\* C7 (reached): DENY was sent while a merge was pending for a name that an
\* active row carries, and no store call failed
C7_DenySentForSameName ==
  /\ SomeHandled
  /\ pre.pending_merge.present
  /\ Confirmation[msg] = "DENY"
  /\ \A i \in 1..Len(calls) : "ok" \in DOMAIN calls[i] => calls[i].ok
  /\ \E i \in 1..Len(pre_people) :
        /\ pre_people[i].active
        /\ Lower(pre_people[i].name) = Lower(pre.pending_merge.classification.fields.name)

\* C8: a number k from 1 to the number of candidates, sent while a merge is
\* pending, appends the pending message to the k-th candidate exactly once,
\* saves no new record and clears the pending merge
C8_NumberMergesIntoKth ==
  (/\ SomeHandled
   /\ pre.pending_merge.present
   /\ IsDigit(msg)
   /\ ToInt(msg) \in 1..Len(Candidates(pre.pending_merge)))
    => /\ AppendedOnceTo(Candidates(pre.pending_merge)[ToInt(msg)].row_idx,
                         pre.pending_merge)
       /\ SaveCalls = {}
       /\ ~user_data.pending_merge.present

\* C8 (reached): a number in range was sent while a merge was pending
C8_NumberSent ==
  /\ SomeHandled
  /\ pre.pending_merge.present
  /\ IsDigit(msg)
  /\ ToInt(msg) \in 1..Len(Candidates(pre.pending_merge))

\* C9: a reply that is no number, names no candidate and parses to OTHER,
\* sent while a merge is pending, removes the pending merge, writes nothing for
\* the pending message and is itself handled as a message arriving in Idle
C9_OtherAbandonsMerge ==
  (/\ SomeHandled
   /\ pre.pending_merge.present
   /\ ~IsDigit(msg)
   /\ Confirmation[msg] = "OTHER"
   /\ FirstIdentifierHit(Candidates(pre.pending_merge), Lower(msg)) = 0)
    => /\ ~raised
       /\ user_data.pending_merge # pre.pending_merge
       /\ \A i \in SaveCalls \cup AppendCalls :
             calls[i].message_id # pre.pending_merge.message_id
       /\ replies # <<>>

\* C9 (reached): such a reply was sent while a merge was pending
C9_OtherSent ==
  /\ SomeHandled
  /\ pre.pending_merge.present
  /\ ~IsDigit(msg)
  /\ Confirmation[msg] = "OTHER"
  /\ FirstIdentifierHit(Candidates(pre.pending_merge), Lower(msg)) = 0

\* C10: with nothing pending, a message whose classification needs
\* confirmation writes nothing to the store, makes a bucket correction pending
\* that holds exactly the message's text, classification and id, and is
\* answered with the list of the five bucket tokens
C10_LowConfidenceAsks ==
  (/\ SomeHandled
   /\ PendingKinds(pre) = {}
   /\ \E i \in ClassifyCalls : needs_confirmation(calls[i].result.confidence))
    => /\ Len(calls) = 1
       /\ people = pre_people
       /\ sheets = pre_sheets
       /\ user_data.pending_message =
            [present |-> TRUE, original_text |-> msg,
             classification |-> calls[1].result, message_id |-> LastId]
       /\ user_data = [pre EXCEPT !.pending_message = user_data.pending_message]
       /\ replies = <<[kind |-> "not_sure", n |-> 0,
                       lists |-> <<T_people, T_ideas, T_interviews, T_things,
                                   T_linkedin>>]>>
       /\ ~raised

\* C10 (reached): with nothing pending, a message classified with confidence
\* exactly at the threshold made a bucket correction pending
C10_AskedAtThreshold ==
  /\ SomeHandled
  /\ PendingKinds(pre) = {}
  /\ \E i \in ClassifyCalls : calls[i].result.confidence = CONFIDENCE_THRESHOLD
  /\ user_data.pending_message.present
  /\ user_data.pending_message.original_text = msg

\* the message handled last was classified while nothing was pending, and
\* its classification needs no confirmation
HighConfidence ==
  /\ SomeHandled
  /\ PendingKinds(pre) = {}
  /\ ClassifyCalls # {}
  /\ \A i \in ClassifyCalls : ~needs_confirmation(calls[i].result.confidence)

\* the classification of the message handled last; classify is the first call
Classification == calls[1].result

\* what find_similar_person returned while the message was handled
MatcherResults ==
  {calls[i].result : i \in {j \in 1..Len(calls) : calls[j].op = "find_similar_person"}}

\* the store after save_entry has succeeded for the message handled last
StoreGained ==
  IF Classification.bucket = T_people
  THEN /\ sheets = pre_sheets
       /\ \E i \in 1..Len(people) :
             /\ people[i].message_id = LastId
             /\ people[i].notes # <<>>
             /\ people[i].notes[Len(people[i].notes)] = msg
  ELSE /\ people = pre_people
       /\ sheets = [pre_sheets EXCEPT ![SheetOf(Classification.bucket)] =
                      Append(@, [message_id |-> LastId, active |-> TRUE])]

\* C11: with nothing pending, a high-confidence message whose bucket is not
\* people, or whose bucket is people with a name for which the matcher
\* returns nothing, makes exactly one save_entry call for the message, is in
\* the store when that call succeeds, and leaves nothing pending
C11_HighConfidenceSaved ==
  (/\ HighConfidence
   /\ \/ Classification.bucket # T_people
      \/ /\ Classification.fields.name # <<>>
         /\ MatcherResults = {PyNone})
    => /\ Cardinality(SaveCalls) = 1
       /\ \A i \in SaveCalls :
             /\ calls[i].text = msg
             /\ calls[i].classification = Classification
             /\ calls[i].message_id = LastId
             /\ ~calls[i].force_new
             /\ replies = <<[kind |-> IF calls[i].ok THEN "saved" ELSE "error_saving",
                             n |-> 0, lists |-> <<>>]>>
             /\ IF calls[i].ok THEN StoreGained
                ELSE people = pre_people /\ sheets = pre_sheets
       /\ AppendCalls = {}
       /\ PendingKinds(user_data) = {}
       /\ ~raised

\* C11 (reached): a high-confidence people message with a name for which the
\* matcher returned nothing was saved as a new row
C11_NewPersonSaved ==
  /\ HighConfidence
  /\ Classification.bucket = T_people
  /\ Classification.fields.name # <<>>
  /\ MatcherResults = {PyNone}
  /\ \E i \in SaveCalls : calls[i].ok
  /\ Len(people) = Len(pre_people) + 1

\* the scores of a name against the rows of the People table
Scores(ppl, name) == [i \in 1..Len(ppl) |-> fuzzy_match_name(name, ppl[i].name)]

\* the active rows whose name matches with a score of at least 0.8
Qualifying(ppl, name) ==
  {i \in 1..Len(ppl) : ppl[i].active /\ ScoreGE(Scores(ppl, name)[i], MatchThreshold)}

\* the candidate records of the qualifying rows
QualifyingRecords(ppl, name) ==
  {MatchDict(ppl, Scores(ppl, name), i).val : i \in Qualifying(ppl, name)}

\* a high-confidence people message with a name, for which the matcher read
\* the table and found somebody
MatcherFound ==
  /\ HighConfidence
  /\ Classification.bucket = T_people
  /\ Classification.fields.name # <<>>
  /\ \E r \in MatcherResults : Truthy(r)

\* the pending merge holds the message handled last
MergePendingForLast ==
  /\ user_data.pending_merge.present
  /\ user_data.pending_merge.original_text = msg
  /\ user_data.pending_merge.classification = Classification
  /\ user_data.pending_merge.message_id = LastId

\* C12: when exactly one row qualifies, nothing is saved, the pending merge
\* holds that candidate as existing_person and as the only entry of the
\* candidate list, and the reply asks "Same <name>?"
C12_OneCandidateAsks ==
  (MatcherFound /\ Cardinality(Qualifying(pre_people, Classification.fields.name)) = 1)
    => /\ people = pre_people /\ sheets = pre_sheets
       /\ SaveCalls = {} /\ AppendCalls = {}
       /\ MergePendingForLast
       /\ \A c \in QualifyingRecords(pre_people, Classification.fields.name) :
             /\ user_data.pending_merge.existing_person = PyDict(c)
             /\ Candidates(user_data.pending_merge) = <<c>>
             /\ replies = <<[kind |-> "same_person", n |-> 1, lists |-> <<c.name>>]>>

\* C12 (reached): the matcher found the only qualifying row
C12_OneCandidateFound ==
  /\ MatcherFound
  /\ Cardinality(Qualifying(pre_people, Classification.fields.name)) = 1
  /\ MatcherResults \subseteq
       {PyDict(c) : c \in QualifyingRecords(pre_people, Classification.fields.name)}

\* C13: when two or more rows qualify, the pending merge holds no preselected
\* candidate and all the candidates, and the reply is a menu with one line
\* for each of them
C13_SeveralCandidatesMenu ==
  (MatcherFound /\ Cardinality(Qualifying(pre_people, Classification.fields.name)) >= 2)
    => /\ people = pre_people /\ sheets = pre_sheets
       /\ SaveCalls = {} /\ AppendCalls = {}
       /\ MergePendingForLast
       /\ user_data.pending_merge.existing_person = PyNone
       /\ Len(Candidates(user_data.pending_merge)) =
            Cardinality(Qualifying(pre_people, Classification.fields.name))
       /\ {Candidates(user_data.pending_merge)[i] :
             i \in 1..Len(Candidates(user_data.pending_merge))} =
            QualifyingRecords(pre_people, Classification.fields.name)
       /\ replies = <<[kind |-> "which_one",
                       n |-> Len(Candidates(user_data.pending_merge)),
                       lists |-> Names(Candidates(user_data.pending_merge))]>>

\* C13 (reached): two rows qualified and the matcher returned one of them
C13_TwoCandidatesFound ==
  /\ MatcherFound
  /\ Cardinality(Qualifying(pre_people, Classification.fields.name)) = 2
  /\ user_data.pending_merge.present
  /\ Len(Candidates(user_data.pending_merge)) = 1

\* the message handled last arrived while a person question was pending
QuestionWasPending == SomeHandled /\ pre.pending_person_question.present

\* the candidates of the person question that was pending
AskedAbout == pre.pending_person_question.matches

\* C14: a number k within the candidates of a pending person question
\* answers the stored question with the k-th candidate alone and clears the
\* pending question; nothing is classified and the store is not touched
C14_NumberAnswersKth ==
  (QuestionWasPending /\ IsDigit(msg) /\ ToInt(msg) \in 1..Len(AskedAbout))
    => /\ calls = <<[op |-> "answer_people_query",
                     question |-> pre.pending_person_question.original_question,
                     people |-> <<AskedAbout[ToInt(msg)]>>]>>
       /\ user_data = [pre EXCEPT !.pending_person_question = Absent]
       /\ people = pre_people /\ sheets = pre_sheets
       /\ replies = <<[kind |-> "answer", n |-> 0, lists |-> <<>>]>>
       /\ ~raised

\* C14 (reached): the first of two candidates was picked by its number
C14_FirstOfTwoPicked ==
  /\ QuestionWasPending
  /\ IsDigit(msg) /\ ToInt(msg) = 1
  /\ Len(AskedAbout) = 2
  /\ AskedAbout[1] # AskedAbout[2]
  /\ Len(calls) = 1

\* C15: a DENY reply to a pending person question clears it and is answered
\* with the cancellation only: no answer is produced, nothing is classified,
\* the store and the rest of the session data stay as they were
C15_DenyCancelsQuestion ==
  (QuestionWasPending /\ ~IsDigit(msg) /\ Confirmation[msg] = "DENY")
    => /\ user_data = [pre EXCEPT !.pending_person_question = Absent]
       /\ calls = <<>>
       /\ people = pre_people /\ sheets = pre_sheets
       /\ replies = <<[kind |-> "nevermind", n |-> 0, lists |-> <<>>]>>
       /\ ~raised

\* C15 (reached): a pending person question was denied
C15_QuestionDenied ==
  /\ QuestionWasPending
  /\ ~IsDigit(msg)
  /\ Confirmation[msg] = "DENY"
  /\ replies # <<>>

\* the reply to a pending person question is no number, no usable CONFIRM,
\* no DENY and names no candidate's identifier
QuestionNotUnderstood ==
  /\ QuestionWasPending
  /\ ~IsDigit(msg)
  /\ ~(Confirmation[msg] = "CONFIRM" /\ Len(AskedAbout) = 1)
  /\ Confirmation[msg] # "DENY"
  /\ FirstIdentifierHit(AskedAbout, Lower(msg)) = 0

\* the state is the one this run of handle_message ends in
OutcomeIs(r) ==
  /\ user_data = r.ud
  /\ people = r.people
  /\ sheets = r.sheets
  /\ calls = r.calls
  /\ replies = r.replies
  /\ raised = r.raised

\* C16: a reply to a pending person question that is not understood removes
\* the pending question without a reply of its own, and the message is then
\* handled exactly as it is handled when no person question is pending
C16_NotUnderstoodFallsThrough ==
  QuestionNotUnderstood
    => \E answer \in GatewayAnswers(msg), read_ok \in BOOLEAN, write_ok \in BOOLEAN :
         OutcomeIs(handle_message([pre EXCEPT !.pending_person_question = Absent],
                                  pre_people, pre_sheets, msg, LastId,
                                  answer, read_ok, write_ok))

\* C16 (reached): a reply that was not understood went on to be classified
C16_FellThroughToClassify ==
  /\ QuestionNotUnderstood
  /\ ClassifyCalls # {}
  /\ ~user_data.pending_person_question.present

\* C17: no run of handle_message ends in an unhandled exception, and every
\* message gets exactly one reply
C17_NoFailureOneReply ==
  /\ ~raised
  /\ SomeHandled => Len(replies) = 1

\* C17 (reached): the handler raised after the matcher found a person, and
\* the message got no reply
C17_RaisedWithoutReply ==
  /\ MatcherFound
  /\ raised
  /\ replies = <<>>

\* the gateway call for the message handled last failed
GatewayFailed == SomeHandled /\ \E i \in ClassifyCalls : ~calls[i].gateway_ok

NoEntryIn(reply) ==
  /\ ~InList(reply, AFFIRMATIVE)
  /\ ~InList(reply, NEGATIVE)
  /\ \A i \in 1..Len(AFFIRMATIVE) :
        Len(AFFIRMATIVE[i]) > MinPhraseLen => ~Contains(AFFIRMATIVE[i], reply)
  /\ \A i \in 1..Len(NEGATIVE) :
        Len(NEGATIVE[i]) > MinPhraseLen => ~Contains(NEGATIVE[i], reply)

\* C20: every entry of AFFIRMATIVE, passed as it is written, parses as
\* CONFIRM; every entry of NEGATIVE parses as DENY; a reply that equals no
\* entry and contains no entry longer than two characters parses as OTHER
C20_LexiconParsed ==
  output # "none"
    => /\ InList(input, AFFIRMATIVE) => output = "CONFIRM"
       /\ InList(input, NEGATIVE) => output = "DENY"
       /\ NoEntryIn(Strip(Lower(input))) => output = "OTHER"

\* C20 (reached): an entry of AFFIRMATIVE was parsed and the result is OTHER
C20_EntryParsedOther ==
  /\ InList(input, AFFIRMATIVE)
  /\ output = "OTHER"

\* the reply as parse_confirmation compares it
Normalised == Strip(Lower(input))

\* the normalised reply equals an entry of one of the lists
EqualsEntry == InList(Normalised, AFFIRMATIVE) \/ InList(Normalised, NEGATIVE)

\* an entry of the list, longer than two characters, occurs in the reply
HasPhraseOf(list) ==
  \E i \in 1..Len(list) : Len(list[i]) > MinPhraseLen /\ Contains(list[i], Normalised)

\* C21: for a reply that equals no entry, only the entries longer than two
\* characters count as contained: the result is CONFIRM when an affirmative
\* one occurs in it, also when a negative one occurs as well, DENY when only
\* a negative one occurs, and OTHER when none occurs, whatever shorter
\* entries the reply contains
C21_OnlyPhrasesScanned ==
  (output # "none" /\ ~EqualsEntry)
    => output = IF HasPhraseOf(AFFIRMATIVE) THEN "CONFIRM"
                ELSE IF HasPhraseOf(NEGATIVE) THEN "DENY"
                ELSE "OTHER"

\* C21 (reached): a reply that contains an affirmative and a negative entry
\* longer than two characters was parsed as CONFIRM
C21_BothPhrasesConfirm ==
  /\ ~EqualsEntry
  /\ HasPhraseOf(AFFIRMATIVE)
  /\ HasPhraseOf(NEGATIVE)
  /\ output = "CONFIRM"

\* fuzzy_match_name has been applied to a pair of names
Scored == output # "none" /\ input \in NameInputs \X NameInputs

\* the names as fuzzy_match_name compares them
Name1 == Strip(Lower(input[1]))
Name2 == Strip(Lower(input[2]))

\* two scores are the same number
ScoreEq(a, b) == a[1] * b[2] = b[1] * a[2]

\* the first token of a name, the name itself when it has no token
FirstToken(n) == IF Split(n) = <<>> THEN n ELSE Head(Split(n))

\* the number of positions at which two names carry the same character
EqualPositions(a, b) ==
  Cardinality({i \in (1..Len(a)) \cap (1..Len(b)) : a[i] = b[i]})

\* the length of the longer of two names
LongerLen(a, b) == IF Len(a) >= Len(b) THEN Len(a) ELSE Len(b)

\* the rule of the ladder that applies first to the two names
Rule ==
  IF Name1 = Name2 THEN "equal"
  ELSE IF Contains(Name1, Name2) \/ Contains(Name2, Name1) THEN "substring"
  ELSE IF FirstToken(Name1) = FirstToken(Name2) THEN "first_token"
  ELSE "overlap"

\* C22: the score is 1.0 for names equal after lower-casing and trimming,
\* otherwise 0.9 when one is a substring of the other, otherwise 0.85 when
\* the first tokens are equal, otherwise the number of equal positions over
\* the longer length; it lies between 0 and 1
C22_ScoringLadder ==
  Scored
    => /\ Rule = "equal" => ScoreEq(output, <<1, 1>>)
       /\ Rule = "substring" => ScoreEq(output, <<9, 10>>)
       /\ Rule = "first_token" => ScoreEq(output, <<17, 20>>)
       /\ Rule = "overlap" =>
            /\ LongerLen(Name1, Name2) > 0
            /\ ScoreEq(output, <<EqualPositions(Name1, Name2), LongerLen(Name1, Name2)>>)
       /\ output[2] > 0
       /\ 0 <= output[1] /\ output[1] <= output[2]

\* C22 (reached): a name and a longer name that starts with it, which also
\* share the first token, scored 0.9
C22_SubstringBeforeFirstToken ==
  /\ Scored
  /\ Rule = "substring"
  /\ Name1 # <<>> /\ Name2 # <<>>
  /\ FirstToken(Name1) = FirstToken(Name2)
  /\ ScoreEq(output, <<9, 10>>)

\* C23: the score of a and b is the score of b and a
C23_Symmetric ==
  Scored => ScoreEq(output, fuzzy_match_name(input[2], input[1]))

\* C23 (reached): two names of different lengths were scored by their
\* overlap, which is not zero
C23_OverlapOfUnequalLengths ==
  /\ Scored
  /\ Rule = "overlap"
  /\ Len(Name1) # Len(Name2)
  /\ output[1] > 0

\* C24: two empty names score 0.0, and an empty name scores less than 0.8
\* against a name that is not empty
C24_EmptyNameScoresLow ==
  Scored
    => /\ (Name1 = <<>> /\ Name2 = <<>>) => ScoreEq(output, <<0, 1>>)
       /\ ((Name1 = <<>>) # (Name2 = <<>>)) => ~ScoreGE(output, MatchThreshold)

\* C24 (reached): an empty name was scored against a name that is not empty
C24_EmptyAgainstName ==
  /\ Scored
  /\ Name1 = <<>>
  /\ Name2 # <<>>
  /\ ScoreGE(output, MatchThreshold)

\* the calls of find_similar_person made for the message handled last
MatcherCalls == {i \in 1..Len(calls) : calls[i].op = "find_similar_person"}

\* the records in what find_similar_person returned
Returned(result) ==
  CASE result.kind = "none" -> {}
    [] result.kind = "dict" -> {result.val}
    [] result.kind = "list" -> {result.val[i] : i \in 1..Len(result.val)}

\* C25: a candidate search that returns something returns exactly the active
\* records whose score against the name is at least 0.8, all of those that
\* tie at the best score included
C25_AllCandidatesReturned ==
  \A i \in MatcherCalls :
     Truthy(calls[i].result)
       => Returned(calls[i].result) = QualifyingRecords(pre_people, calls[i].name)

\* C25 (reached): two active records tie at the best score and the search
\* returned one record
C25_TieAtBestScore ==
  \E i \in MatcherCalls :
     /\ Cardinality(QualifyingRecords(pre_people, calls[i].name)) = 2
     /\ \A c \in QualifyingRecords(pre_people, calls[i].name) : c.score = <<1, 1>>
     /\ Cardinality(Returned(calls[i].result)) = 1

\* extract_identifier has been applied to a context
Extracted == output # "none" /\ input \in Contexts

\* a keyword of the list occurs in the context and a word follows its first
\* occurrence
Cued(keywords) ==
  \E i \in 1..Len(keywords) :
     /\ Contains(keywords[i], Lower(input))
     /\ WordsAfter(input, keywords[i]) # <<>>

\* a relationship word occurs in the context
Related == \E i \in 1..Len(relation_keywords) : Contains(relation_keywords[i], Lower(input))

\* the highest class of cues under which the context yields a result
CueClass ==
  IF input = <<>> THEN "none"
  ELSE IF Cued(work_keywords) THEN "workplace"
  ELSE IF Related THEN "relationship"
  ELSE IF Cued(location_keywords) THEN "location"
  ELSE IF Cued(event_keywords) THEN "event"
  ELSE "fallback"

\* C26: the result is the one of the highest class under which the context
\* yields a result, in the order workplace, relationship, location, event,
\* fallback, wherever the cues stand in the context; the empty context gives
\* the empty string
C26_CuePriority ==
  Extracted
    => output[1] =
         CASE CueClass = "none" -> <<>>
           [] CueClass = "workplace" -> CueScan(input, work_keywords, T_from, 1)
           [] CueClass = "relationship" -> RelationScan(Lower(input), relation_keywords)
           [] CueClass = "location" -> CueScan(input, location_keywords, T_in, 1)
           [] CueClass = "event" -> CueScan(input, event_keywords, T_from_the, 3)
           [] CueClass = "fallback" -> RStrip(Join(Take(Split(input), 3)), TrailingPunct)

\* C26 (reached): the context names the relationship first and the
\* workplace after it, and the result is the workplace
C26_WorkplaceAfterRelationship ==
  /\ Extracted
  /\ StartsWith(input, F_rel)
  /\ Contains(F_work, input)
  /\ output[1] = T_from \o <<"G","o","o","g","l","e">>

\* the message handled last arrived while a merge, and no person question,
\* was pending
MergeWasPending ==
  /\ SomeHandled
  /\ pre.pending_merge.present
  /\ ~pre.pending_person_question.present

\* the first candidate of the pending merge that the reply names by a word
\* of its identifier, 0 when it names none
NamedCandidate == FirstIdentifierHit(Candidates(pre.pending_merge), Lower(msg))

\* C27: a reply that is no number and names a candidate of the pending merge
\* by a word of its identifier appends the pending message to the first such
\* candidate exactly once and clears the pending merge
C27_IdentifierMergesIntoFirstHit ==
  (MergeWasPending /\ ~IsDigit(msg) /\ NamedCandidate # 0)
    => /\ AppendedOnceTo(Candidates(pre.pending_merge)[NamedCandidate].row_idx,
                         pre.pending_merge)
       /\ SaveCalls = {}
       /\ ~user_data.pending_merge.present
       /\ ~raised

\* C27 (reached): "google" was sent while a merge with the candidate whose
\* context is "works at Google" was pending
C27_GoogleSent ==
  /\ MergeWasPending
  /\ msg = M_google
  /\ NamedCandidate # 0
  /\ Candidates(pre.pending_merge)[NamedCandidate].context = X_google

\* the reply is a number
Numbered == SomeHandled /\ IsDigit(msg)

\* the only effect of the message handled last is a reminder of the range
RangeReminded ==
  /\ Len(replies) = 1
  /\ replies[1].kind = "pick_number"
  /\ calls = <<>>
  /\ people = pre_people /\ sheets = pre_sheets
  /\ user_data = pre
  /\ ~raised

\* C28: a number outside 1..N, sent while a person question or a merge with
\* N candidates is pending, is answered with a reminder of the range; nothing
\* is written, merged, answered or classified and the session data stay as
\* they were
C28_OutOfRangeReminds ==
  /\ (Numbered /\ QuestionWasPending /\ ToInt(msg) \notin 1..Len(AskedAbout))
       => RangeReminded
  /\ (Numbered /\ MergeWasPending /\ ToInt(msg) \notin 1..Len(Candidates(pre.pending_merge)))
       => RangeReminded

\* C28 (reached): "3" was sent while a merge with one candidate was pending
C28_ThreeSentForOneCandidate ==
  /\ Numbered
  /\ MergeWasPending
  /\ msg = M_three
  /\ Len(Candidates(pre.pending_merge)) = 1

\* the candidates of a person question are two or more people who carry the
\* same name but for case
SameNamedSeveral(question) ==
  /\ Len(question.matches) >= 2
  /\ \A i, j \in 1..Len(question.matches) :
        Lower(question.matches[i].name) = Lower(question.matches[j].name)

\* C29: a person question is pending only with two or more candidates of the
\* same name, so no message ever meets a pending person question with one
\* candidate, the only case in which CONFIRM selects a candidate
C29_QuestionHasSeveralCandidates ==
  /\ user_data.pending_person_question.present
       => SameNamedSeveral(user_data.pending_person_question)
  /\ QuestionWasPending => SameNamedSeveral(pre.pending_person_question)

\* C29 (reached): CONFIRM was sent while a person question with two
\* candidates was pending, and no candidate was selected
C29_ConfirmSelectsNobody ==
  /\ QuestionWasPending
  /\ ~IsDigit(msg)
  /\ Confirmation[msg] = "CONFIRM"
  /\ Len(AskedAbout) = 2
  /\ \A i \in 1..Len(calls) : calls[i].op # "answer_people_query"

\* the rows that qualified as candidates of the pending merge
MergeCandidateRows ==
  Qualifying(pre_people, pre.pending_merge.classification.fields.name)

\* the reply to a pending merge with several candidates, none preselected,
\* is CONFIRM and names no candidate
ConfirmedAmongSeveral ==
  /\ MergeWasPending
  /\ pre.pending_merge.existing_person = PyNone
  /\ Cardinality(MergeCandidateRows) >= 2
  /\ ~IsDigit(msg)
  /\ Confirmation[msg] = "CONFIRM"
  /\ NamedCandidate = 0

\* C30: CONFIRM on a pending merge with two or more candidates and none
\* preselected merges and creates nothing, asks for a number or an
\* identifier, and leaves the pending merge as it was
C30_ConfirmAmongSeveralAsks ==
  ConfirmedAmongSeveral
    => /\ replies = <<[kind |-> "please_pick", n |-> 0, lists |-> <<>>]>>
       /\ calls = <<>>
       /\ people = pre_people /\ sheets = pre_sheets
       /\ user_data.pending_merge = pre.pending_merge
       /\ ~raised

\* C30 (reached): "yes" was sent while such a merge was pending
C30_YesAmongSeveral ==
  /\ ConfirmedAmongSeveral
  /\ msg = M_yes

\* the rows of the People table, present before the message handled last,
\* whose notes that message changed
NotesChanged ==
  {i \in 1..Len(pre_people) :
     i <= Len(people) /\ people[i].notes # pre_people[i].notes}

\* C31: the notes of an existing People row change only through a reply to
\* a pending merge, by an append_to_person call for that row
C31_NotesChangeOnlyByMerge ==
  \A i \in NotesChanged :
     /\ pre.pending_merge.present
     /\ \E c \in AppendCalls : calls[c].row_idx = i + 1
     /\ SaveCalls = {}

\* C31 (reached): the bucket correction "people" for a pending message about
\* Alex changed the notes of the existing row of Alex; no merge was pending
\* and the matcher was not called
C31_CorrectionChangedNotes ==
  /\ SomeHandled
  /\ pre.pending_message.present
  /\ ~pre.pending_merge.present
  /\ msg = M_people
  /\ NotesChanged # {}
  /\ MatcherCalls = {}
  /\ AppendCalls = {}

\* the number of active rows, over all the tables, that carry the message id
ActiveRows(id) ==
  Cardinality({i \in 1..Len(people) : people[i].message_id = id /\ people[i].active})
  + Cardinality(UNION {{<<s, i>> : i \in {j \in 1..Len(sheets[s]) :
                                            /\ sheets[s][j].message_id = id
                                            /\ sheets[s][j].active}} :
                       s \in DOMAIN sheets})

\* the message ids given to messages so far
MessageIds == 1..(next_id - 1)

\* C32: every message has at most one active row over the People, Ideas,
\* Interviews, Things and LinkedIn tables
C32_OneActiveRowPerMessage ==
  \A id \in MessageIds : ActiveRows(id) <= 1

\* the calls of fix_entry made for the message handled last that succeeded
FixCalls == {i \in 1..Len(calls) : calls[i].op = "fix_entry" /\ calls[i].ok}

\* C32 (reached): a second fix of a message left it active in two tables
C32_SecondFixLeftTwoActive ==
  /\ SomeHandled
  /\ \E c \in FixCalls : ActiveRows(calls[c].message_id) = 2

\* the replies "Fixed. Moved from ..." sent for the message handled last
FixedReplies == {i \in 1..Len(replies) : replies[i].kind = "fixed"}

\* C33: whenever a fix command is answered "Fixed. Moved from ...", the message
\* has an active row in some table; a fix never leaves the message without one
C33_FixedOnlyWithActiveRow ==
  (SomeHandled /\ FixedReplies # {}) =>
     \A c \in FixCalls : ActiveRows(calls[c].message_id) >= 1

\* C33 (reached): "fix people" for a message whose fields carry no name was
\* answered "Fixed. Moved from ..." and the message has no active row left
C33_FixedWithoutActiveRow ==
  /\ SomeHandled
  /\ msg = M_fix_people
  /\ FixedReplies # {}
  /\ \E c \in FixCalls : ActiveRows(calls[c].message_id) = 0

\* the calls made for the message handled last that wrote a message to the store
WriteCalls ==
  {i \in 1..Len(calls) :
     /\ calls[i].op \in {"save_entry", "append_to_person", "fix_entry"}
     /\ calls[i].ok}

\* the session's last_message names the message with this id
LastMessageIs(id) ==
  /\ user_data.last_message.present
  /\ user_data.last_message.message_id = id

\* the message handled last was a yes or a "new" to a pending merge
MergeDecided == MergeWasPending /\ Confirmation[msg] \in {"CONFIRM", "DENY"}

IsCommand ==
  \/ StartsWith(Lower(msg), T_top)
  \/ StartsWith(Lower(msg), T_fix)
  \/ StartsWith(Lower(msg), T_fx)

\* a command arrived while a bucket correction or a merge was pending and no
\* person question was
CommandWhilePending ==
  /\ SomeHandled
  /\ pre.pending_message.present \/ pre.pending_merge.present
  /\ ~pre.pending_person_question.present
  /\ IsCommand

\* the replies that the "top" and the "fix" commands send
CommandReplies ==
  {"digest", "could_not_fetch", "top_items", "unknown_table",
   "fixed", "could_not_find", "invalid_category", "no_recent_message"}

SavedJustBefore ==
  /\ SomeHandled
  /\ PendingKinds(pre) = {}
  /\ pre.last_message.present
  /\ pre.last_message.message_id = LastId - 1

\* a bare bucket token followed a message that was saved at once
TokenAfterSave == SavedJustBefore /\ InList(Lower(msg), BucketTokens)

\* C36: a bare bucket token that follows a message saved at once is not
\* classified and not saved as an entry of its own; the saved message is
\* filed again under the bucket named
C36_TokenRefilesSaved ==
  TokenAfterSave
    => /\ ClassifyCalls = {}
       /\ \A c \in SaveCalls : calls[c].message_id = LastId - 1
       /\ ~user_data.pending_message.present

\* C36 (reached): "things" followed a message saved at once, was classified
\* and was saved as a new entry with an id of its own
C36_TokenSavedAsEntry ==
  /\ TokenAfterSave
  /\ msg = M_things
  /\ ClassifyCalls # {}
  /\ \E c \in SaveCalls : calls[c].message_id = LastId /\ calls[c].ok

\* the calls of save_entry of the immediate save and of the bucket correction
\* that failed for the message handled last
FailedSaves ==
  {c \in SaveCalls : ~calls[c].ok /\ ~calls[c].force_new}

\* C37: when the write of an immediate save or of a bucket correction fails,
\* last_message is left as it was, the write is not tried again, and the one
\* reply is the error text "Error saving. Please try again."
C37_FailedSaveKeepsLastMessage ==
  (SomeHandled /\ FailedSaves # {})
    => /\ user_data.last_message = pre.last_message
       /\ Cardinality(SaveCalls) = 1
       /\ replies = <<[kind |-> "error_saving", n |-> 0, lists |-> <<>>]>>

\* C37 (reached): the write of an immediate save failed while last_message
\* named an earlier message
C37_ImmediateSaveFailed ==
  /\ SomeHandled
  /\ FailedSaves # {}
  /\ ~pre.pending_message.present
  /\ pre.last_message.present
  /\ \E c \in FailedSaves : calls[c].message_id = LastId

====
